---------------------------- MODULE Spec2Model ----------------------------
(***************************************************************************)
(* Device Session & Telemetry Coordinator of shiftmatic-v1 (src/server.js, *)
(* and its near-identical variant src/unnamed/part_000 lines 1-334).       *)
(*                                                                         *)
(* The process is a single-threaded event loop.  A handler runs without    *)
(* interruption up to its next `await pool.query(...)`; the query is then  *)
(* in flight ("sent"), the database executes it at some later moment as    *)
(* one atomic statement ("ok") or the call fails ("err"), and still later  *)
(* the handler's continuation runs up to its next await.  Handlers of      *)
(* different requests interleave at exactly these points.                  *)
(*                                                                         *)
(* Abstractions: timestamps (NOW(), Date.now()) are not modelled, so       *)
(* ended_at is TRUE when set and FALSE when NULL, and started_at order is  *)
(* the order of the serial ids; session titles are not modelled; a JS      *)
(* null/undefined numeric that the code coalesces with 0 (`x || null`,     *)
(* `x || 0`) is the number 0.                                              *)
(***************************************************************************)
EXTENDS Integers, Sequences, FiniteSets, Bags, TLC

\* ------------------------------------------------------------------ bounds
MaxSessions == 2
MaxInFlight == 2
MaxMessages == 1

Devices == {"d1", "d2"}

VARIABLES
    sessions,                 \* table sessions: row i has id i
    coordinates,              \* table coordinates: row i has id i
    activeSessionByDevice,    \* Map deviceId -> sessionId
    latestTelemetryByDevice,  \* Map deviceId -> {lat, lon, sid, deviceTs}
    latestStatusByDevice,     \* Map deviceId -> status payload
    requests,                 \* bag of handlers suspended at an await, or done
    pendingInserts,           \* bag of insertCoordinate queries in flight
    published,                \* bag of commands mqttClient.publish has sent
    listening,                \* app.listen has been called
    delivered,                \* number of messages the transport has delivered
    store                     \* in-memory points of the HTTP ingestion entry point

vars == <<sessions, coordinates, activeSessionByDevice, latestTelemetryByDevice,
          latestStatusByDevice, requests, pendingInserts, published, listening, delivered,
          store>>

\* ------------------------------------------------------------- JS Map
EmptyMap == [k \in {} |-> 0]

MapHas(m, k) == k \in DOMAIN m

\* Map.prototype.get, with undefined read as 0 (every caller coalesces it)
MapGet(m, k) == IF k \in DOMAIN m THEN m[k] ELSE 0

MapSet(m, k, v) == [x \in (DOMAIN m) \cup {k} |-> IF x = k THEN v ELSE m[x]]

MapDelete(m, k) == [x \in (DOMAIN m) \ {k} |-> m[x]]

\* ---------------------------------------------------------- JS values
\* A JSON value of a payload, or the result of a coercion.
Undef == [k |-> "undefined", n |-> 0, s |-> ""]
NaN == [k |-> "NaN", n |-> 0, s |-> ""]
Str(s) == [k |-> "string", n |-> 0, s |-> s]

\* the payload "null": JSON.parse returns null, which has no properties
Null == [k |-> "null", n |-> 0, s |-> ""]

\* ---- numbers.  A number is a double.  A finite one is held as the
\* integer it is (Num) up to MaxInt in size, and otherwise by the text
\* String() gives it (Double: "1.5", "-0.001", "12345678901", "1e+21");
\* the infinities are a kind of their own, n being the sign.  -0 is 0:
\* String(-0) is "0" and -0 is neither positive nor truthy.
MaxInt == 2147483647
Num(n) == [k |-> "number", n |-> n, s |-> ""]
Double(s) == [k |-> "number", n |-> 0, s |-> s]
Infinity(sign) == [k |-> "Infinity", n |-> sign, s |-> ""]

\* -v
Negated(v) ==
    CASE v.k = "Infinity" -> Infinity(0 - v.n)
      [] v.k = "number" /\ v.s = "" -> Num(0 - v.n)
      [] v.k = "number" /\ v.s # "" ->
            IF SubSeq(v.s, 1, 1) = "-" THEN Double(SubSeq(v.s, 2, Len(v.s)))
            ELSE Double("-" \o v.s)
      [] OTHER -> v

\* a ?? b: null and undefined give way to b
Coalesce(a, b) == IF a.k \in {"undefined", "null"} THEN b ELSE a

\* ---- Number(s) of a string s (StringToNumber of the language): white
\* space and line terminators around the literal are dropped, the empty
\* string is 0, then either a radix literal without sign (0x, 0o, 0b) or a
\* signed decimal literal with optional fraction and exponent, or a signed
\* Infinity.  Everything else is NaN.
\* White space: tab, LF, FF, CR, space, and written as themselves VT,
\* U+00A0, U+1680 and U+FEFF.  (U+2000..U+200A, U+2028, U+2029, U+202F,
\* U+205F and U+3000 are white space too; no string of a module can hold
\* them.)
WhiteSpace ==
    {" ", "\t", "\n", "\r", "\f", "", " ", " ", "﻿"}

DigitValue ==
    [c \in {"0", "1", "2", "3", "4", "5", "6", "7", "8", "9",
            "a", "b", "c", "d", "e", "f", "A", "B", "C", "D", "E", "F"} |->
        CASE c = "0" -> 0 [] c = "1" -> 1 [] c = "2" -> 2 [] c = "3" -> 3 [] c = "4" -> 4
          [] c = "5" -> 5 [] c = "6" -> 6 [] c = "7" -> 7 [] c = "8" -> 8 [] c = "9" -> 9
          [] c \in {"a", "A"} -> 10 [] c \in {"b", "B"} -> 11 [] c \in {"c", "C"} -> 12
          [] c \in {"d", "D"} -> 13 [] c \in {"e", "E"} -> 14 [] c \in {"f", "F"} -> 15]

\* the prefixes of the radix literals
RadixOf ==
    [c \in {"x", "X", "o", "O", "b", "B"} |->
        CASE c \in {"x", "X"} -> 16 [] c \in {"o", "O"} -> 8 [] c \in {"b", "B"} -> 2]

CharAt(s, i) == SubSeq(s, i, i)

\* F of the value of x, x being calculated once
Bind(x, F(_)) == CHOOSE r \in {F(y) : y \in {x}} : TRUE

\* the place of the first character of s that is in chars, Len(s) + 1
\* when there is none
FirstIn(s, chars) ==
    CHOOSE i \in 1..(Len(s) + 1) :
        /\ i = Len(s) + 1 \/ CharAt(s, i) \in chars
        /\ \A j \in 1..(i - 1) : CharAt(s, j) \notin chars

\* the place of the first character of s that is not in chars, Len(s) + 1
\* when there is none
FirstNotIn(s, chars) ==
    CHOOSE i \in 1..(Len(s) + 1) :
        /\ i = Len(s) + 1 \/ CharAt(s, i) \notin chars
        /\ \A j \in 1..(i - 1) : CharAt(s, j) \in chars

\* the place of the last character of s that is not in chars, 0 when
\* there is none
LastNotIn(s, chars) ==
    CHOOSE i \in 0..Len(s) :
        /\ i = 0 \/ CharAt(s, i) \notin chars
        /\ \A j \in (i + 1)..Len(s) : CharAt(s, j) \in chars

\* s without the white space at its ends
Trimmed(s) ==
    Bind(s, LAMBDA t : SubSeq(t, FirstNotIn(t, WhiteSpace), LastNotIn(t, WhiteSpace)))

AllDigits(s, base) ==
    \A i \in 1..Len(s) :
        CharAt(s, i) \in DOMAIN DigitValue /\ DigitValue[CharAt(s, i)] < base

DigitsValue(s, base) ==
    LET val[i \in 0..Len(s)] ==
            IF i = 0 THEN 0 ELSE base * val[i - 1] + DigitValue[CharAt(s, i)]
    IN  val[Len(s)]

Zeros(n) ==
    LET z[i \in 0..n] == IF i = 0 THEN "" ELSE z[i - 1] \o "0"
    IN  z[n]

\* the decimal digits d (no leading zero) denote an integer up to MaxInt
AtMostMaxInt(d) ==
    \/ Len(d) < 10
    \/ /\ Len(d) = 10
       /\ \/ DigitsValue(SubSeq(d, 1, 9), 10) < MaxInt \div 10
          \/ /\ DigitsValue(SubSeq(d, 1, 9), 10) = MaxInt \div 10
             /\ DigitValue[CharAt(d, 10)] <= MaxInt % 10

\* ---- natural numbers of any size, for the rounding of a double: the
\* limbs of a number in base Base, lowest first, no zero limb at the top
\* (0 is the empty sequence)
Base == 1000000
BaseDigits == 6

LimbAt(a, i) == IF i >= 1 /\ i <= Len(a) THEN a[i] ELSE 0

\* a without the zero limbs at its top
Stripped(a) ==
    Bind(a, LAMBDA v :
        SubSeq(v, 1, Len(v) - (CHOOSE d \in 0..Len(v) :
                                  /\ d = Len(v) \/ v[Len(v) - d] # 0
                                  /\ \A j \in (Len(v) - d + 1)..Len(v) : v[j] = 0)))

\* the carry out of column i of the columns t (each below 2 * Base - 1),
\* c being the carry into column 1: that of the nearest column at or below i
\* which does not pass its carry on
CarryOut(t, i, c) ==
    Bind(CHOOSE d \in 0..i :
            /\ d = i \/ t[i - d] # Base - 1
            /\ \A j \in (i - d + 1)..i : t[j] = Base - 1,
         LAMBDA d : IF d = i THEN c ELSE IF t[i - d] >= Base THEN 1 ELSE 0)

\* the n lowest limbs of the sum of the columns t and the carry c
Carried(t, c, n) ==
    Bind(t \o <<>>, LAMBDA v :
        <<>> \o [i \in 1..n |-> (LimbAt(v, i) + CarryOut(v, i - 1, c)) % Base])

\* a + b
Plus(a, b) ==
    Bind([a |-> a, b |-> b, n |-> IF Len(a) > Len(b) THEN Len(a) ELSE Len(b)], LAMBDA x :
        Stripped(Carried([i \in 1..x.n |-> LimbAt(x.a, i) + LimbAt(x.b, i)], 0, x.n + 1)))

\* a - b, for a >= b
Minus(a, b) ==
    Bind([a |-> a, b |-> b], LAMBDA x :
        Stripped(Carried([i \in 1..Len(x.a) |-> x.a[i] + (Base - 1 - LimbAt(x.b, i))],
                         1, Len(x.a))))

\* a * k, for 0 < k <= 2048
Times(a, k) ==
    Bind(a, LAMBDA v :
        Stripped(Carried([i \in 1..(Len(v) + 1) |->
                              ((LimbAt(v, i) * k) % Base) + ((LimbAt(v, i - 1) * k) \div Base)],
                         0, Len(v) + 1)))

\* -1, 0, 1 as a < b, a = b, a > b
Compare(a, b) ==
    Bind([a |-> a, b |-> b], LAMBDA x :
        IF Len(x.a) # Len(x.b) THEN (IF Len(x.a) > Len(x.b) THEN 1 ELSE 0 - 1)
        ELSE IF x.a = x.b THEN 0
        ELSE Bind(CHOOSE i \in 1..Len(x.a) :
                     /\ x.a[i] # x.b[i]
                     /\ \A j \in (i + 1)..Len(x.a) : x.a[j] = x.b[j],
                  LAMBDA i : IF x.a[i] > x.b[i] THEN 1 ELSE 0 - 1))

\* a * 2^n
RECURSIVE TimesPowerOfTwo(_, _)
TimesPowerOfTwo(a, n) ==
    IF n = 0 THEN a
    ELSE IF n <= 11 THEN Times(a, 2 ^ n)
    ELSE Bind(TimesPowerOfTwo(a, n \div 2), LAMBDA v : TimesPowerOfTwo(v, n - n \div 2))

\* a * 10^n
TimesPowerOfTen(a, n) ==
    Bind([i \in 1..(n \div BaseDigits) |-> 0] \o a, LAMBDA v :
        IF Len(v) = n \div BaseDigits THEN <<>>
        ELSE IF n % BaseDigits = 0 THEN v
        ELSE IF n % BaseDigits <= 3 THEN Times(v, 10 ^ (n % BaseDigits))
        ELSE Times(Times(v, 1000), 10 ^ ((n % BaseDigits) - 3)))

\* the number of the decimal digits d
Limbs(d) ==
    Bind(d, LAMBDA t :
        Stripped([i \in 1..((Len(t) + BaseDigits - 1) \div BaseDigits) |->
                     DigitsValue(SubSeq(t, IF Len(t) - BaseDigits * i + 1 < 1
                                           THEN 1
                                           ELSE Len(t) - BaseDigits * i + 1,
                                        Len(t) - BaseDigits * (i - 1)), 10)]))

\* the number of decimal digits of a > 0
DecimalLength(a) == BaseDigits * (Len(a) - 1) + Len(ToString(a[Len(a)]))

\* ---- doubles.  A finite double is m * 2^q with m < 2^53 and q >= -1074.
MantissaBits == 53
MinExponent == 0 - 1074
MaxExponent == 971
TwoTo52 == <<370496, 599627, 4503>>
TwoTo53 == <<740992, 199254, 9007>>

\* one bit of the quotient r / d: x is [m, r], the bits so far and the
\* remainder
QuotientBit(x, d) ==
    IF Compare(x.r, d) >= 0
    THEN [m |-> Plus(Times(x.m, 2), <<1>>), r |-> Times(Minus(x.r, d), 2)]
    ELSE [m |-> Times(x.m, 2), r |-> Times(x.r, 2)]

RECURSIVE QuotientBits(_, _, _)
QuotientBits(x, d, n) ==
    IF n = 1 THEN QuotientBit(x, d)
    ELSE Bind(QuotientBits(x, d, n \div 2), LAMBDA y : QuotientBits(y, d, n - n \div 2))

\* x = [num, den, q] with num / den < 2^57: den doubled until
\* num / den < 2
RECURSIVE BelowTwo(_)
BelowTwo(x) ==
    Bind(Times(x.den, 2), LAMBDA d2 :
        IF Compare(x.num, d2) >= 0
        THEN BelowTwo([num |-> x.num, den |-> d2, q |-> x.q + 1])
        ELSE x)

\* the double nearest to num / den * 2^(q - 52), ties to the even mantissa:
\* [kind, m, q]
RoundedQuotient(x) ==
    Bind(QuotientBits([m |-> <<>>, r |-> x.num], x.den, MantissaBits), LAMBDA y :
        Bind(IF \/ Compare(y.r, x.den) > 0
                \/ Compare(y.r, x.den) = 0 /\ y.m # <<>> /\ y.m[1] % 2 = 1
             THEN Plus(y.m, <<1>>)
             ELSE y.m,
             LAMBDA m :
                IF m = <<>> THEN [kind |-> "zero", m |-> m, q |-> 0]
                ELSE IF m = TwoTo53
                THEN (IF x.q + 1 > MaxExponent
                      THEN [kind |-> "Infinity", m |-> m, q |-> 0]
                      ELSE [kind |-> "finite", m |-> TwoTo52, q |-> x.q + 1])
                ELSE IF x.q > MaxExponent THEN [kind |-> "Infinity", m |-> m, q |-> 0]
                ELSE [kind |-> "finite", m |-> m, q |-> x.q]))

\* the double nearest to a * 10^e, a number of p + e... digits: p is the
\* power of ten above it (10^(p-1) <= a * 10^e < 10^p)
NearestDouble(a, e, p) ==
    Bind([num |-> IF e >= 0 THEN TimesPowerOfTen(a, e) ELSE a,
          den |-> IF e >= 0 THEN <<1>> ELSE TimesPowerOfTen(<<1>>, 0 - e),
          q |-> IF ((p - 1) * 3321928) \div 1000000 - 52 < MinExponent
                THEN MinExponent
                ELSE ((p - 1) * 3321928) \div 1000000 - 52],
         LAMBDA x :
            Bind([num |-> IF x.q < 0 THEN TimesPowerOfTwo(x.num, 0 - x.q) ELSE x.num,
                  den |-> TimesPowerOfTwo(x.den, IF x.q >= 0 THEN x.q + 52 ELSE 52),
                  q |-> x.q],
                 LAMBDA y : Bind(BelowTwo(y), RoundedQuotient)))

\* ---- the shortest decimal digits that denote a double (Number::toString
\* steps 5: k as small as possible, then the digits closest to the value).
\* x = [r, s, mp, mm, k, even]: r / s the value, mp / s and mm / s the
\* halves of the gaps to the next double above and below, all scaled by
\* 10^-k.
High(x) == Compare(Plus(x.r, x.mp), x.s)

RECURSIVE ScaledUp(_)
ScaledUp(x) ==
    IF (x.even /\ High(x) >= 0) \/ (~x.even /\ High(x) > 0)
    THEN Bind([x EXCEPT !.s = Times(x.s, 10), !.k = x.k + 1], ScaledUp)
    ELSE x

RECURSIVE ScaledDown(_)
ScaledDown(x) ==
    Bind(Compare(Times(Plus(x.r, x.mp), 10), x.s), LAMBDA c :
        IF (x.even /\ c < 0) \/ (~x.even /\ c <= 0)
        THEN Bind([x EXCEPT !.r = Times(x.r, 10), !.mp = Times(x.mp, 10),
                            !.mm = Times(x.mm, 10), !.k = x.k - 1], ScaledDown)
        ELSE x)

\* [d, r]: the quotient digit of r / s and the remainder
RECURSIVE DigitOf(_, _, _)
DigitOf(r, s, d) ==
    IF Compare(r, s) >= 0
    THEN Bind(Minus(r, s), LAMBDA r2 : DigitOf(r2, s, d + 1))
    ELSE [d |-> d, r |-> r]

RECURSIVE ShortestDigits(_, _)
ShortestDigits(x, ds) ==
    Bind([mp |-> Times(x.mp, 10), mm |-> Times(x.mm, 10), q |-> DigitOf(Times(x.r, 10), x.s, 0)],
         LAMBDA y :
            Bind([low |-> IF x.even THEN Compare(y.q.r, y.mm) <= 0 ELSE Compare(y.q.r, y.mm) < 0,
                  high |-> IF x.even THEN Compare(Plus(y.q.r, y.mp), x.s) >= 0
                           ELSE Compare(Plus(y.q.r, y.mp), x.s) > 0,
                  half |-> Compare(Times(y.q.r, 2), x.s)],
                 LAMBDA z :
                    IF ~z.low /\ ~z.high
                    THEN ShortestDigits([x EXCEPT !.r = y.q.r, !.mp = y.mp, !.mm = y.mm],
                                        ds \o CharAt("0123456789", y.q.d + 1))
                    ELSE IF z.low /\ ~z.high THEN ds \o CharAt("0123456789", y.q.d + 1)
                    ELSE IF z.high /\ ~z.low THEN ds \o CharAt("0123456789", y.q.d + 2)
                    ELSE IF z.half < 0 \/ (z.half = 0 /\ y.q.d % 2 = 0)
                    THEN ds \o CharAt("0123456789", y.q.d + 1)
                    ELSE ds \o CharAt("0123456789", y.q.d + 2)))

\* [ds, n]: the double m * 2^q is 0.ds * 10^n, p being an estimate of n
Shortest(m, q, p) ==
    Bind([m |-> m, q |-> q, f |-> IF m = TwoTo52 /\ q > MinExponent THEN 2 ELSE 1], LAMBDA v :
        Bind(IF v.q >= 0
             THEN [r |-> Times(TimesPowerOfTwo(v.m, v.q), 2 * v.f), s |-> <<2 * v.f>>,
                   mp |-> Times(TimesPowerOfTwo(<<1>>, v.q), v.f),
                   mm |-> TimesPowerOfTwo(<<1>>, v.q)]
             ELSE [r |-> Times(v.m, 2 * v.f), s |-> TimesPowerOfTwo(<<1>>, v.f - v.q),
                   mp |-> <<v.f>>, mm |-> <<1>>],
             LAMBDA w :
                Bind(IF p >= 0
                     THEN [r |-> w.r, s |-> TimesPowerOfTen(w.s, p), mp |-> w.mp, mm |-> w.mm,
                           k |-> p, even |-> v.m[1] % 2 = 0]
                     ELSE [r |-> TimesPowerOfTen(w.r, 0 - p), s |-> w.s,
                           mp |-> TimesPowerOfTen(w.mp, 0 - p),
                           mm |-> TimesPowerOfTen(w.mm, 0 - p),
                           k |-> p, even |-> v.m[1] % 2 = 0],
                     LAMBDA x :
                        Bind(ScaledDown(ScaledUp(x)), LAMBDA y :
                            [ds |-> ShortestDigits(y, ""), n |-> y.k]))))

\* ---- Number::toString of the double 0.ds * 10^n given by its shortest
\* digits ds: plain digits up to 21 places, a fraction down to 1e-6, the
\* exponent form otherwise.  The number is held by that text, or as the
\* integer.
Format(ds, n) ==
    Bind([ds |-> ds, n |-> n, k |-> Len(ds)], LAMBDA x :
        IF x.k <= x.n /\ x.n <= 21
        THEN Bind(x.ds \o Zeros(x.n - x.k),
                  LAMBDA t : IF AtMostMaxInt(t) THEN Num(DigitsValue(t, 10)) ELSE Double(t))
        ELSE IF 0 < x.n /\ x.n <= 21
        THEN Double(SubSeq(x.ds, 1, x.n) \o "." \o SubSeq(x.ds, x.n + 1, x.k))
        ELSE IF 0 - 6 < x.n /\ x.n <= 0
        THEN Double("0." \o Zeros(0 - x.n) \o x.ds)
        ELSE Double(SubSeq(x.ds, 1, 1)
                    \o (IF x.k = 1 THEN "" ELSE "." \o SubSeq(x.ds, 2, x.k))
                    \o (IF x.n - 1 >= 0 THEN "e+" \o ToString(x.n - 1)
                        ELSE "e-" \o ToString(1 - x.n))))

\* the double nearest to a * 10^e (10^(p-1) <= a * 10^e < 10^p)
Rounded(a, e, p) ==
    Bind(NearestDouble(a, e, p), LAMBDA x :
        IF x.kind = "Infinity" THEN Infinity(1)
        ELSE IF x.kind = "zero" THEN Num(0)
        ELSE Bind(Shortest(x.m, x.q, p), LAMBDA y : Format(y.ds, y.n)))

\* 0.sig * 10^p is infinite as a double for p above MaxPowerOfTen (it is
\* at least 10^309) and 0 for p below MinPowerOfTen (it is less than
\* 10^-324, which is less than half the smallest double)
MaxPowerOfTen == 309
MinPowerOfTen == 0 - 323

\* up to ExactDigits digits with a power of ten from ExactLow to ExactHigh
\* are the shortest digits of the double nearest to them (DBL_DIG)
ExactDigits == 15
ExactLow == 0 - 306
ExactHigh == 308

\* digits beyond MaxDigits change the double only by being there
MaxDigits == 800

\* the double nearest to 0.sig * 10^p, of decimal digits sig that neither
\* begin nor end with 0
Scaled(sig, p) ==
    IF p > MaxPowerOfTen THEN Infinity(1)
    ELSE IF p < MinPowerOfTen THEN Num(0)
    ELSE IF Len(sig) <= ExactDigits /\ p >= ExactLow /\ p <= ExactHigh THEN Format(sig, p)
    ELSE IF Len(sig) > MaxDigits
    THEN Rounded(Limbs(SubSeq(sig, 1, MaxDigits) \o "1"), p - (MaxDigits + 1), p)
    ELSE Rounded(Limbs(sig), p - Len(sig), p)

\* 0x, 0o or 0b and at least one digit of that radix
IsRadixLiteral(t) ==
    /\ Len(t) >= 3
    /\ CharAt(t, 1) = "0"
    /\ CharAt(t, 2) \in DOMAIN RadixOf
    /\ AllDigits(SubSeq(t, 3, Len(t)), RadixOf[CharAt(t, 2)])

\* the bits of a digit of the radix
RadixBits == [r \in {2, 8, 16} |-> CASE r = 2 -> 1 [] r = 8 -> 3 [] r = 16 -> 4]

\* the largest number of bits whose value is held as an integer
IntBits == 30

\* the number the digits s denote in the radix of that many bits
RECURSIVE RadixLimbs(_, _)
RadixLimbs(s, bits) ==
    IF Len(s) * bits <= IntBits
    THEN Bind(DigitsValue(s, 2 ^ bits), LAMBDA v : Stripped(<<v % Base, v \div Base>>))
    ELSE Bind([s |-> s, n |-> Len(s) \div 2], LAMBDA x :
            Plus(TimesPowerOfTwo(RadixLimbs(SubSeq(x.s, 1, Len(x.s) - x.n), bits), bits * x.n),
                 RadixLimbs(SubSeq(x.s, Len(x.s) - x.n + 1, Len(x.s)), bits)))

\* the double of the digits d (no leading zero) of a radix: infinite from
\* 2^1024 on
RadixNumber(d, bits) ==
    IF Len(d) * bits <= IntBits THEN Num(DigitsValue(d, 2 ^ bits))
    ELSE IF (Len(d) - 1) * bits >= 1024 THEN Infinity(1)
    ELSE Bind(RadixLimbs(d, bits), LAMBDA a : Rounded(a, 0, DecimalLength(a)))

RadixValue(t) ==
    Bind(SubSeq(t, 3, Len(t)), LAMBDA s :
        RadixNumber(SubSeq(s, FirstNotIn(s, {"0"}), Len(s)), RadixBits[RadixOf[CharAt(t, 2)]]))

\* the value of an exponent's digits; beyond MaxExponentDigits digits
\* every double is infinite or 0, as it is for 10^MaxExponentDigits
MaxExponentDigits == 9
ExponentValue(digits) ==
    Bind(SubSeq(digits, FirstNotIn(digits, {"0"}), Len(digits)),
         LAMBDA d : IF Len(d) > MaxExponentDigits THEN 10 ^ MaxExponentDigits
                    ELSE DigitsValue(d, 10))

\* the number 0.d1d2... * 10^point of the decimal digits d1d2...
DecimalNumber(digits, point) ==
    Bind([d |-> digits, lo |-> FirstNotIn(digits, {"0"}), hi |-> LastNotIn(digits, {"0"}),
          point |-> point],
         LAMBDA x : IF x.lo > Len(x.d)
                    THEN Num(0)
                    ELSE Scaled(SubSeq(x.d, x.lo, x.hi), x.point - (x.lo - 1)))

\* the mantissa int.frac with the exponent given by its sign and digits,
\* as a set (empty: no literal)
DecimalLiteral(int, frac, hasExponent, negative, expDigits) ==
    IF /\ Len(int) + Len(frac) > 0
       /\ AllDigits(int, 10) /\ AllDigits(frac, 10)
       /\ hasExponent => (Len(expDigits) > 0 /\ AllDigits(expDigits, 10))
    THEN {DecimalNumber(int \o frac,
                        IF ~hasExponent THEN Len(int)
                        ELSE IF negative THEN Len(int) - ExponentValue(expDigits)
                        ELSE Len(int) + ExponentValue(expDigits))}
    ELSE {}

\* StrUnsignedDecimalLiteral: Infinity, or digits with an optional "." and
\* an optional exponent; the number it denotes, as a set (empty: none)
UnsignedValue(s) ==
    Bind([b |-> s, e |-> FirstIn(s, {"e", "E"}), dot |-> FirstIn(s, {".", "e", "E"})],
         LAMBDA x :
            IF x.b = "Infinity" THEN {Infinity(1)}
            ELSE Bind([int |-> SubSeq(x.b, 1, x.dot - 1),
                       frac |-> SubSeq(x.b, x.dot + 1, x.e - 1),
                       hasExponent |-> x.e <= Len(x.b),
                       negative |-> x.e < Len(x.b) /\ CharAt(x.b, x.e + 1) = "-",
                       expDigits |-> IF x.e < Len(x.b) /\ CharAt(x.b, x.e + 1) \in {"+", "-"}
                                     THEN SubSeq(x.b, x.e + 2, Len(x.b))
                                     ELSE SubSeq(x.b, x.e + 1, Len(x.b))],
                      LAMBDA y : DecimalLiteral(y.int, y.frac, y.hasExponent,
                                                y.negative, y.expDigits)))

\* Number(t) of a string t without white space at its ends
TrimmedToNumber(t) ==
    IF t = "" THEN Num(0)
    ELSE IF IsRadixLiteral(t) THEN RadixValue(t)
    ELSE Bind(UnsignedValue(IF CharAt(t, 1) \in {"+", "-"} THEN SubSeq(t, 2, Len(t)) ELSE t),
              LAMBDA vs : IF vs = {} THEN NaN
                          ELSE IF CharAt(t, 1) = "-" THEN Negated(CHOOSE v \in vs : TRUE)
                          ELSE CHOOSE v \in vs : TRUE)

StringToNumber(s) == Bind(Trimmed(s), TrimmedToNumber)

\* the number a numeric literal denotes ("1.5", "1e21", "9007199254740993")
Numeral(s) == StringToNumber(s)

\* Number(v)
ToNumber(v) ==
    CASE v.k \in {"number", "NaN", "Infinity"} -> v
      [] v.k = "string" -> StringToNumber(v.s)
      [] v.k = "null" -> Num(0)
      [] OTHER -> NaN

\* !v
Falsy(v) ==
    \/ v.k \in {"undefined", "null", "NaN"}
    \/ v.k = "number" /\ v.n = 0 /\ v.s = ""
    \/ v.k = "string" /\ v.s = ""

\* String(v)
ToStr(v) ==
    CASE v.k = "string" -> v.s
      [] v.k = "number" -> IF v.s = "" THEN ToString(v.n) ELSE v.s
      [] v.k = "Infinity" -> IF v.n > 0 THEN "Infinity" ELSE "-Infinity"
      [] OTHER -> v.k

\* Number.isFinite(v)
IsFinite(v) == v.k = "number"

\* v > 0 of a number v
Positive(v) ==
    \/ v.k = "Infinity" /\ v.n > 0
    \/ v.k = "number" /\ v.s = "" /\ v.n > 0
    \/ v.k = "number" /\ v.s # "" /\ CharAt(v.s, 1) # "-"

\* v || 0, v || null for a number v (null is the number 0)
OrZero(v) == IF Falsy(v) THEN Num(0) ELSE v

\* the keys a payload object is read by; an absent key reads undefined
Keys == {"deviceId", "id", "sessionId", "sid", "lat", "la", "lon", "lo",
         "ts", "t", "device_ts", "gps"}

\* normalizeTelemetry: {deviceId, sessionId, lat, lon, ts}
normalizeTelemetry(obj) ==
    [deviceId |-> ToStr(Coalesce(Coalesce(obj["deviceId"], obj["id"]), Str(""))),
     sessionId |-> ToNumber(Coalesce(Coalesce(obj["sessionId"], obj["sid"]), Num(0))),
     lat |-> ToNumber(Coalesce(obj["lat"], obj["la"])),
     lon |-> ToNumber(Coalesce(obj["lon"], obj["lo"])),
     ts |-> OrZero(ToNumber(Coalesce(Coalesce(Coalesce(obj["ts"], obj["t"]),
                                              obj["device_ts"]), Num(0))))]

\* mutant: fields the report lacks are taken from the previous snapshot
normalizeStatusMerged(obj) ==
    LET id == IF obj["deviceId"].k = "undefined"
              THEN Str(ToStr(Coalesce(obj["id"], Str(""))))
              ELSE obj["deviceId"]
    IN  [key \in Keys |->
            IF key = "deviceId"
            THEN id
            ELSE IF obj[key].k = "undefined" /\ MapHas(latestStatusByDevice, id)
            THEN latestStatusByDevice[id][key]
            ELSE obj[key]]

\* normalizeStatus: {deviceId, ...obj}; an own deviceId key of obj wins
normalizeStatus(obj) ==
    [key \in Keys |->
        IF key = "deviceId" /\ obj["deviceId"].k = "undefined"
        THEN Str(ToStr(Coalesce(obj["id"], Str(""))))
        ELSE obj[key]]

\* ------------------------------------------------------ durable store
SessionIds(ss) == 1..Len(ss)

ActiveIdsOf(ss, d) == {i \in SessionIds(ss) : ss[i].device_id = d /\ ss[i].is_active}

SetMax(S) == CHOOSE x \in S : \A y \in S : y <= x

\* mutant: the UPDATE matches no row
DeactivateNothing(ss, d) == ss

\* mutant: the UPDATE without its device_id=$1 condition
DeactivateEveryDevice(ss, d) ==
    [i \in SessionIds(ss) |->
        IF ss[i].is_active
        THEN [ss[i] EXCEPT !.is_active = FALSE, !.ended_at = TRUE]
        ELSE ss[i]]

\* UPDATE sessions SET is_active=false, ended_at=NOW()
\*  WHERE device_id=$1 AND is_active=true
DeactivateActiveSessions(ss, d) ==
    [i \in SessionIds(ss) |->
        IF ss[i].device_id = d /\ ss[i].is_active
        THEN [ss[i] EXCEPT !.is_active = FALSE, !.ended_at = TRUE]
        ELSE ss[i]]

\* mutant: an upsert that revives the device's last row instead of inserting
CreateSessionReusing(ss, d) ==
    LET own == {i \in 1..Len(ss) : ss[i].device_id = d}
    IN  IF own = {}
        THEN Append(ss, [device_id |-> d, is_active |-> TRUE, ended_at |-> FALSE])
        ELSE [i \in 1..Len(ss) |->
                 IF i = CHOOSE x \in own : \A y \in own : y <= x
                 THEN [ss[i] EXCEPT !.is_active = TRUE, !.ended_at = FALSE]
                 ELSE ss[i]]

\* INSERT INTO sessions(device_id, title, is_active) VALUES ($1,$2,true)
CreateSession(ss, d) ==
    Append(ss, [device_id |-> d, is_active |-> TRUE, ended_at |-> FALSE])

\* UPDATE sessions SET is_active=false, ended_at=NOW() WHERE id=$1
EndSession(ss, id) ==
    [i \in SessionIds(ss) |->
        IF i = id
        THEN [ss[i] EXCEPT !.is_active = FALSE, !.ended_at = TRUE]
        ELSE ss[i]]

\* mutant: the SELECT with ORDER BY started_at ASC
FindOldestActiveSession(ss, d) ==
    IF ActiveIdsOf(ss, d) = {}
    THEN {}
    ELSE {CHOOSE i \in ActiveIdsOf(ss, d) : \A j \in ActiveIdsOf(ss, d) : i <= j}

\* mutant: the SELECT without its is_active=true condition
FindLatestSession(ss, d) ==
    IF {i \in SessionIds(ss) : ss[i].device_id = d} = {}
    THEN {}
    ELSE {SetMax({i \in SessionIds(ss) : ss[i].device_id = d})}

\* SELECT id FROM sessions WHERE device_id=$1 AND is_active=true
\*  ORDER BY started_at DESC LIMIT 1      (the ids found: none or one)
FindActiveSession(ss, d) ==
    IF ActiveIdsOf(ss, d) = {} THEN {} ELSE {SetMax(ActiveIdsOf(ss, d))}

\* SELECT id, device_id FROM sessions WHERE is_active = true
ListActiveSessions(ss) ==
    {[id |-> i, device_id |-> ss[i].device_id] : i \in {j \in SessionIds(ss) : ss[j].is_active}}

\* INSERT INTO coordinates(session_id, device_id, lat, lon, device_ts, server_ts)
InsertCoordinate(cs, q) ==
    Append(cs, [session_id |-> q.sessionId, device_id |-> q.deviceId,
                lat |-> q.lat, lon |-> q.lon, device_ts |-> q.ts])

\* SELECT c.* FROM coordinates c WHERE c.device_id=$1
\*  ORDER BY c.created_at DESC LIMIT 1: the row's index, or no row
LatestCoordinate(cs, d) ==
    LET own == {i \in 1..Len(cs) : cs[i].device_id = d}
    IN  IF own = {} THEN {} ELSE {SetMax(own)}

\* ----------------------------------------------------------- handlers
\* A suspended (or finished) handler: op is the handler, pc the query it
\* awaits, st that query's state, the rest its local variables.
\* the "latest" of a response body that has none
NoPoint == [session_id |-> Num(0), lat |-> Num(0), lon |-> Num(0), source |-> "-"]

Req(op, pc, st, device, sessionId, rows, status) ==
    [op |-> op, pc |-> pc, st |-> st, device |-> device,
     sessionId |-> sessionId, rows |-> rows, status |-> status, latest |-> NoPoint]

InFlight == BagToSet(requests)

Put(bag, r) == bag (+) SetToBag({r})
Take(bag, r) == bag (-) SetToBag({r})
Swap(bag, r, r2) == Put(Take(bag, r), r2)

\* mutant: the payload carries no session id
CommandWithoutSession(device, cmd, sessionId) ==
    [topic |-> device, cmd |-> cmd, sessionId |-> 0]

\* the cmd topic and payload of mqttClient.publish
Command(device, cmd, sessionId) == [topic |-> device, cmd |-> cmd, sessionId |-> sessionId]

\* a start handler that has not yet had its INSERT executed
StartPending(r) ==
    \/ r.op = "start" /\ (r.pc = "deactivate" \/ (r.pc = "create" /\ r.st = "sent"))
    \/ r.op = "orphan" /\ r.pc = "create" /\ r.st = "sent"

\* sessions rows that exist or are still to be created by a start in flight
SessionsClaimed ==
    Len(sessions)
    + BagCardinality([r \in {x \in InFlight : StartPending(x)} |-> requests[r]])

\* the for-loop of loadActiveSessionsIntoCache over rows in any order: for a
\* device with several rows the last one set wins
CachesLoadedFrom(rows) ==
    LET devs == {r.device_id : r \in rows}
    IN  {m \in [devs -> {r.id : r \in rows}] :
            \A d \in devs : [id |-> m[d], device_id |-> d] \in rows}

\* mutant: the startup listens as soon as SELECT 1 is answered, without
\* loadActiveSessionsIntoCache
BootPingedThenListen(r) ==
    /\ r \in InFlight /\ r.op = "boot" /\ r.pc = "ping" /\ r.st \in {"ok", "err"}
    /\ requests' = Take(requests, r)
    /\ listening' = TRUE
    /\ UNCHANGED <<sessions, coordinates, activeSessionByDevice, latestTelemetryByDevice,
                   latestStatusByDevice, pendingInserts, published, delivered, store>>

\* ---- startup IIFE: pool.query("SELECT 1"), loadActiveSessionsIntoCache, listen
BootPinged(r) ==
    /\ r \in InFlight /\ r.op = "boot" /\ r.pc = "ping" /\ r.st \in {"ok", "err"}
    /\ IF r.st = "ok"
       THEN /\ requests' = Swap(requests, r, [r EXCEPT !.pc = "load", !.st = "sent"])
            /\ UNCHANGED listening
       ELSE /\ requests' = Take(requests, r)
            /\ listening' = TRUE
    /\ UNCHANGED <<sessions, coordinates, activeSessionByDevice, latestTelemetryByDevice,
                   latestStatusByDevice, pendingInserts, published, delivered, store>>

\* ---- mqttClient.on("connect"): subscribe twice, loadActiveSessionsIntoCache
Connect ==
    /\ requests' = Put(requests, Req("connect", "load", "sent", "", 0, {}, 0))
    /\ UNCHANGED <<sessions, coordinates, activeSessionByDevice, latestTelemetryByDevice,
                   latestStatusByDevice, pendingInserts, published, listening, delivered, store>>

\* mutant: the cache is cleared before the query is awaited
LoadedAfterClear(r) ==
    /\ r \in InFlight /\ r.op \in {"boot", "connect"} /\ r.pc = "load" /\ r.st \in {"ok", "err"}
    /\ IF r.st = "ok"
       THEN activeSessionByDevice' \in CachesLoadedFrom(r.rows)
       ELSE activeSessionByDevice' = EmptyMap
    /\ requests' = Take(requests, r)
    /\ listening' = (listening \/ r.op = "boot")
    /\ UNCHANGED <<sessions, coordinates, latestTelemetryByDevice,
                   latestStatusByDevice, pendingInserts, published, delivered, store>>

\* ---- loadActiveSessionsIntoCache after its query, and its two callers' catch
Loaded(r) ==
    /\ r \in InFlight /\ r.op \in {"boot", "connect"} /\ r.pc = "load" /\ r.st \in {"ok", "err"}
    /\ IF r.st = "ok"
       THEN activeSessionByDevice' \in CachesLoadedFrom(r.rows)
       ELSE UNCHANGED activeSessionByDevice
    /\ requests' = Take(requests, r)
    /\ listening' = (listening \/ r.op = "boot")
    /\ UNCHANGED <<sessions, coordinates, latestTelemetryByDevice,
                   latestStatusByDevice, pendingInserts, published, delivered, store>>

\* ---- POST /api/sessions/start
StartRequest(deviceId) ==
    /\ listening
    /\ IF deviceId = ""
       THEN requests' = Put(requests, Req("start", "done", "-", "", 0, {}, 400))
       ELSE /\ SessionsClaimed < MaxSessions
            /\ requests' = Put(requests, Req("start", "deactivate", "sent", deviceId, 0, {}, 0))
    /\ UNCHANGED <<sessions, coordinates, activeSessionByDevice, latestTelemetryByDevice,
                   latestStatusByDevice, pendingInserts, published, listening, delivered, store>>

StartDeactivated(r) ==
    /\ r \in InFlight /\ r.op = "start" /\ r.pc = "deactivate" /\ r.st \in {"ok", "err"}
    /\ IF r.st = "ok"
       THEN requests' = Swap(requests, r, [r EXCEPT !.pc = "create", !.st = "sent"])
       ELSE requests' = Swap(requests, r, [r EXCEPT !.pc = "done", !.st = "-", !.status = 500])
    /\ UNCHANGED <<sessions, coordinates, activeSessionByDevice, latestTelemetryByDevice,
                   latestStatusByDevice, pendingInserts, published, listening, delivered, store>>

\* mqttClient.publish(cmdTopic, cmd) is called inside the try, without
\* callback: the command is sent, or it is lost without the handler
\* learning of it (qos 0: queued while offline, dropped, an error event), or
\* the call throws and the catch answers
PublishOutcomes == {"sent", "lost", "thrown"}

\* the answer after the publish: res.json when it returned, the catch's
\* 500 when it threw
StatusAfterPublish(outcome) == IF outcome = "thrown" THEN 500 ELSE 200

\* the cache is set before the publish, whatever its outcome
StartCreated(r, outcome) ==
    /\ r \in InFlight /\ r.op = "start" /\ r.pc = "create" /\ r.st \in {"ok", "err"}
    /\ IF r.st = "ok"
       THEN /\ activeSessionByDevice' = MapSet(activeSessionByDevice, r.device, r.sessionId)
            /\ published' = IF outcome = "sent"
                             THEN Put(published, Command(r.device, "START", r.sessionId))
                             ELSE published
            /\ requests' = Swap(requests, r, [r EXCEPT !.pc = "done", !.st = "-",
                                                         !.status = StatusAfterPublish(outcome)])
       ELSE /\ requests' = Swap(requests, r, [r EXCEPT !.pc = "done", !.st = "-", !.status = 500])
            /\ UNCHANGED <<activeSessionByDevice, published, delivered, store>>
    /\ UNCHANGED <<sessions, coordinates, latestTelemetryByDevice,
                   latestStatusByDevice, pendingInserts, listening, delivered, store>>

\* ---- POST /api/sessions/stop
StopRequest(deviceId) ==
    /\ listening
    /\ LET sid == MapGet(activeSessionByDevice, deviceId)
       IN  IF deviceId = ""
           THEN requests' = Put(requests, Req("stop", "done", "-", "", 0, {}, 400))
           ELSE IF sid # 0
           THEN requests' = Put(requests, Req("stop", "end", "sent", deviceId, sid, {sid}, 0))
           ELSE requests' = Put(requests, Req("stop", "find", "sent", deviceId, 0, {}, 0))
    /\ UNCHANGED <<sessions, coordinates, activeSessionByDevice, latestTelemetryByDevice,
                   latestStatusByDevice, pendingInserts, published, listening, delivered, store>>

StopFound(r) ==
    /\ r \in InFlight /\ r.op = "stop" /\ r.pc = "find" /\ r.st \in {"ok", "err"}
    /\ IF r.st = "err"
       THEN requests' = Swap(requests, r, [r EXCEPT !.pc = "done", !.st = "-", !.status = 500])
       ELSE IF r.rows = {}
       THEN requests' = Swap(requests, r, [r EXCEPT !.pc = "done", !.st = "-", !.status = 404])
       ELSE requests' = Swap(requests, r, [r EXCEPT !.pc = "end", !.st = "sent",
                                                    !.sessionId = SetMax(r.rows)])
    /\ UNCHANGED <<sessions, coordinates, activeSessionByDevice, latestTelemetryByDevice,
                   latestStatusByDevice, pendingInserts, published, listening, delivered, store>>

\* the cache entry is deleted before the publish, whatever its outcome
StopEnded(r, outcome) ==
    /\ r \in InFlight /\ r.op = "stop" /\ r.pc = "end" /\ r.st \in {"ok", "err"}
    /\ IF r.st = "ok"
       THEN /\ activeSessionByDevice' = MapDelete(activeSessionByDevice, r.device)
            /\ published' = IF outcome = "sent"
                             THEN Put(published, Command(r.device, "STOP", r.sessionId))
                             ELSE published
            /\ requests' = Swap(requests, r, [r EXCEPT !.pc = "done", !.st = "-",
                                                         !.status = StatusAfterPublish(outcome)])
       ELSE /\ requests' = Swap(requests, r, [r EXCEPT !.pc = "done", !.st = "-", !.status = 500])
            /\ UNCHANGED <<activeSessionByDevice, published, delivered, store>>
    /\ UNCHANGED <<sessions, coordinates, latestTelemetryByDevice,
                   latestStatusByDevice, pendingInserts, listening, delivered, store>>

\* mutant: the route asks the store first and reads the cache when it fails
LatestRequestStoreFirst(deviceId) ==
    /\ listening
    /\ IF deviceId = ""
       THEN requests' = Put(requests, Req("latest", "done", "-", "", 0, {}, 400))
       ELSE requests' = Put(requests, Req("latest", "latest", "sent", deviceId, 0, {}, 0))
    /\ UNCHANGED <<sessions, coordinates, activeSessionByDevice, latestTelemetryByDevice,
                   latestStatusByDevice, pendingInserts, published, listening, delivered, store>>

\* ---- GET /api/latest: from the telemetry snapshot if the device has one,
\* else from the store
LatestRequest(deviceId) ==
    /\ listening
    /\ LET cached == latestTelemetryByDevice[deviceId]
       IN  IF deviceId = ""
           THEN requests' = Put(requests, Req("latest", "done", "-", "", 0, {}, 400))
           ELSE IF MapHas(latestTelemetryByDevice, deviceId)
           THEN requests' = Put(requests,
                    [Req("latest", "done", "-", deviceId, 0, {}, 200) EXCEPT
                        !.latest = [session_id |-> cached.sid, lat |-> cached.lat,
                                    lon |-> cached.lon, source |-> "memory"]])
           ELSE requests' = Put(requests, Req("latest", "latest", "sent", deviceId, 0, {}, 0))
    /\ UNCHANGED <<sessions, coordinates, activeSessionByDevice, latestTelemetryByDevice,
                   latestStatusByDevice, pendingInserts, published, listening, delivered, store>>

LatestFound(r) ==
    /\ r \in InFlight /\ r.op = "latest" /\ r.pc = "latest" /\ r.st \in {"ok", "err"}
    /\ IF r.st = "err"
       THEN requests' = Swap(requests, r, [r EXCEPT !.pc = "done", !.st = "-", !.status = 500])
       ELSE IF r.rows = {}
       THEN requests' = Swap(requests, r, [r EXCEPT !.pc = "done", !.st = "-", !.status = 404])
       ELSE requests' = Swap(requests, r,
                [r EXCEPT !.pc = "done", !.st = "-", !.status = 200,
                          !.latest = [session_id |-> coordinates[SetMax(r.rows)].session_id,
                                      lat |-> coordinates[SetMax(r.rows)].lat,
                                      lon |-> coordinates[SetMax(r.rows)].lon,
                                      source |-> "db"]])
    /\ UNCHANGED <<sessions, coordinates, activeSessionByDevice, latestTelemetryByDevice,
                   latestStatusByDevice, pendingInserts, published, listening, delivered, store>>

\* ---- the response has been written (res.on("finish")): the handler is gone
Finish(r) ==
    /\ r \in InFlight /\ r.pc = "done"
    /\ requests' = Take(requests, r)
    /\ UNCHANGED <<sessions, coordinates, activeSessionByDevice, latestTelemetryByDevice,
                   latestStatusByDevice, pendingInserts, published, listening, delivered, store>>

\* ---- the database executes the query a handler awaits
StoreExec(r) ==
    /\ r \in InFlight /\ r.st = "sent"
    /\ CASE r.pc = "ping" ->
              /\ requests' = Swap(requests, r, [r EXCEPT !.st = "ok"])
              /\ UNCHANGED sessions
         [] r.pc = "load" ->
              /\ requests' = Swap(requests, r, [r EXCEPT !.st = "ok",
                                                          !.rows = ListActiveSessions(sessions)])
              /\ UNCHANGED sessions
         [] r.pc = "deactivate" ->
              /\ sessions' = DeactivateActiveSessions(sessions, r.device)
              /\ requests' = Swap(requests, r, [r EXCEPT !.st = "ok"])
         [] r.pc = "create" ->
              /\ sessions' = CreateSession(sessions, r.device)
              /\ requests' = Swap(requests, r, [r EXCEPT !.st = "ok",
                                                          !.sessionId = Len(sessions) + 1])
         [] r.pc = "find" ->
              /\ requests' = Swap(requests, r, [r EXCEPT !.st = "ok",
                                                          !.rows = FindActiveSession(sessions, r.device)])
              /\ UNCHANGED sessions
         [] r.pc = "end" ->
              /\ sessions' = EndSession(sessions, r.sessionId)
              /\ requests' = Swap(requests, r, [r EXCEPT !.st = "ok"])
         [] r.pc = "latest" ->
              /\ requests' = Swap(requests, r, [r EXCEPT !.st = "ok",
                                                          !.rows = LatestCoordinate(coordinates, r.device)])
              /\ UNCHANGED sessions
    /\ UNCHANGED <<coordinates, activeSessionByDevice, latestTelemetryByDevice,
                   latestStatusByDevice, pendingInserts, published, listening, delivered, store>>

\* ---- the query a handler awaits rejects (store unavailable)
StoreFail(r) ==
    /\ r \in InFlight /\ r.st = "sent"
    /\ requests' = Swap(requests, r, [r EXCEPT !.st = "err"])
    /\ UNCHANGED <<sessions, coordinates, activeSessionByDevice, latestTelemetryByDevice,
                   latestStatusByDevice, pendingInserts, published, listening, delivered, store>>

\* ---- the store has answered a write whose process is gone
Orphaned(r) ==
    /\ r \in InFlight /\ r.op = "orphan" /\ r.st \in {"ok", "err"}
    /\ requests' = Take(requests, r)
    /\ UNCHANGED <<sessions, coordinates, activeSessionByDevice, latestTelemetryByDevice,
                   latestStatusByDevice, pendingInserts, published, listening, delivered, store>>

\* ---- mqttClient.on("message"): topic is the topic's last segment, parses
\* whether JSON.parse(text) returns, obj the parsed object
Msg(topic, parses, obj) == [topic |-> topic, parses |-> parses, obj |-> obj]

\* mutant: the cache entry is preferred to the hint
EffectiveSidCacheFirst(t, cache) ==
    IF MapHas(cache, t.deviceId)
    THEN Num(cache[t.deviceId])
    ELSE IF IsFinite(t.sessionId) /\ Positive(t.sessionId) THEN t.sessionId ELSE Num(0)

\* mutant: the test sid <= 0 is missing
EffectiveSidAnyNumber(t, cache) ==
    IF IsFinite(t.sessionId) /\ ~Falsy(t.sessionId)
    THEN t.sessionId
    ELSE Num(MapGet(cache, t.deviceId))

\* mutant: no fallback to the cache
EffectiveSidHintOnly(t, cache) ==
    IF IsFinite(t.sessionId) /\ Positive(t.sessionId) THEN t.sessionId ELSE Num(0)

\* mutant: the fallback is the newest session row, whatever its device
EffectiveSidNewestRow(t, cache) ==
    IF IsFinite(t.sessionId) /\ Positive(t.sessionId)
    THEN t.sessionId
    ELSE IF MapHas(cache, t.deviceId) THEN Num(Len(sessions)) ELSE Num(0)

\* sessionId preference: from device, else active cache
\* (Number(t.sessionId) of a number is that number)
EffectiveSid(t, cache) ==
    IF IsFinite(t.sessionId) /\ Positive(t.sessionId)
    THEN t.sessionId
    ELSE Num(MapGet(cache, t.deviceId))

\* the arguments insertCoordinate is called with
InsertCall(t, sid) ==
    [sessionId |-> sid, deviceId |-> t.deviceId,
     lat |-> t.lat, lon |-> t.lon, ts |-> t.ts]

\* mutant: lat and lon are stored in each other's field
TelemetrySnapshotSwapped(t, sid) ==
    [lat |-> t.lon, lon |-> t.lat, sid |-> sid, deviceTs |-> t.ts]

\* mutant: the snapshot a device has is kept, a report writes the first only
TelemetrySnapshotKept(t, sid) ==
    IF MapHas(latestTelemetryByDevice, t.deviceId)
    THEN latestTelemetryByDevice[t.deviceId]
    ELSE [lat |-> t.lat, lon |-> t.lon, sid |-> sid, deviceTs |-> t.ts]

\* the value latestTelemetryByDevice.set stores (sid: 0 is null)
TelemetrySnapshot(t, sid) ==
    [lat |-> t.lat, lon |-> t.lon, sid |-> sid, deviceTs |-> t.ts]

\* everything but the count of delivered messages
state == <<sessions, coordinates, activeSessionByDevice, latestTelemetryByDevice,
           latestStatusByDevice, requests, pendingInserts, published, listening, store>>

\* The writes the store has received but not yet executed when the process
\* exits: nobody waits for them any more, the store may still execute them.
RECURSIVE OrphansOf(_)
OrphansOf(waiting) ==
    IF waiting = {}
    THEN EmptyBag
    ELSE LET r == CHOOSE x \in waiting : TRUE
         IN  [o \in {[r EXCEPT !.op = "orphan"]} |-> requests[r]]
                 (+) OrphansOf(waiting \ {r})

\* (a write orphaned before and the same write of a handler of this process
\* are two writes)
Orphans ==
    OrphansOf({r \in InFlight : r.st = "sent" /\ r.pc \in {"deactivate", "create", "end"}})

\* The process exits and is started again: the maps are new, the handlers
\* are gone, the startup IIFE runs; the INSERTs of insertCoordinate already
\* handed to the store stay with the store.
Exited ==
    /\ activeSessionByDevice' = EmptyMap
    /\ latestTelemetryByDevice' = EmptyMap
    /\ latestStatusByDevice' = EmptyMap
    /\ requests' = Put(Orphans, Req("boot", "ping", "sent", "", 0, {}, 0))
    /\ listening' = FALSE
    /\ store' = <<>>
    /\ UNCHANGED <<sessions, coordinates, pendingInserts, published>>

\* ---- mqttClient.on("message").  A payload null makes normalizeStatus or
\* normalizeTelemetry throw a TypeError outside the try of JSON.parse: the
\* async handler rejects and nothing handles the rejection, which the
\* runtime only warns about or ends the process on, by its version and flags.
HandleMessage(m) ==
    /\ delivered' = delivered + 1
    /\ IF ~m.parses
       THEN UNCHANGED state
       ELSE IF m.obj = Null /\ m.topic \in {"status", "telemetry"}
       THEN UNCHANGED state \/ Exited
       ELSE IF m.topic = "status"
       THEN \E st \in {normalizeStatus(m.obj)} :
                IF Falsy(st["deviceId"])
                THEN UNCHANGED state
                ELSE /\ latestStatusByDevice' =
                           MapSet(latestStatusByDevice, st["deviceId"], st)
                     /\ UNCHANGED <<sessions, coordinates, activeSessionByDevice,
                                    latestTelemetryByDevice, requests, pendingInserts,
                                    published, listening, store>>
       ELSE IF m.topic = "telemetry"
       THEN \E t \in {normalizeTelemetry(m.obj)} :
                IF t.deviceId = "" \/ ~IsFinite(t.lat) \/ ~IsFinite(t.lon)
                THEN UNCHANGED state
                ELSE \E sid \in {EffectiveSid(t, activeSessionByDevice)} :
                     /\ latestTelemetryByDevice' =
                           MapSet(latestTelemetryByDevice, t.deviceId, TelemetrySnapshot(t, sid))
                     /\ IF Falsy(sid)
                        THEN UNCHANGED pendingInserts
                        ELSE pendingInserts' = Put(pendingInserts, InsertCall(t, sid))
                     /\ UNCHANGED <<sessions, coordinates, activeSessionByDevice,
                                    latestStatusByDevice, requests, published, listening, store>>
       ELSE UNCHANGED state

\* mutant: a message waits until the inserts of the earlier ones have settled
OnMessageAfterInserts(m) ==
    /\ pendingInserts = EmptyBag
    /\ HandleMessage(m)

\* ---- the transport emits "message": the async handler runs up to its
\* await, whatever earlier handlers are still awaiting
OnMessage(m) ==
    HandleMessage(m)

\* ---- the database executes the INSERT of an insertCoordinate call; the
\* handler's continuation only logs the returned row
InsertExec(q) ==
    /\ q \in BagToSet(pendingInserts)
    /\ coordinates' = InsertCoordinate(coordinates, q)
    /\ pendingInserts' = Take(pendingInserts, q)
    /\ UNCHANGED <<sessions, activeSessionByDevice, latestTelemetryByDevice,
                   latestStatusByDevice, requests, published, listening, delivered, store>>

\* ---- the INSERT rejects; the handler's catch only logs
InsertFail(q) ==
    /\ q \in BagToSet(pendingInserts)
    /\ pendingInserts' = Take(pendingInserts, q)
    /\ UNCHANGED <<sessions, coordinates, activeSessionByDevice, latestTelemetryByDevice,
                   latestStatusByDevice, requests, published, listening, delivered, store>>

\* ---- the HTTP ingestion entry point: POST /api/telemetry exists only in
\* the older server kept beside server.js, which holds its points in memory
MAX_POINTS == 20000

\* prune(): the oldest points beyond MAX_POINTS are dropped
prune(points) ==
    IF Len(points) > MAX_POINTS
    THEN SubSeq(points, Len(points) - MAX_POINTS + 1, Len(points))
    ELSE points

\* the entry a handler of the older server pushes (ts: 0 is the server's clock)
Entry(body, via) ==
    [deviceId |-> ToStr(body["deviceId"]), lat |-> ToNumber(body["lat"]),
     lon |-> ToNumber(body["lon"]), ts |-> OrZero(ToNumber(body["ts"])),
     via |-> via]

\* the body or payload is one the older server's handlers store
Accepted(body) ==
    /\ ~Falsy(body["deviceId"])
    /\ IsFinite(ToNumber(body["lat"])) /\ IsFinite(ToNumber(body["lon"]))

\* the route reads deviceId, lat, lon and ts of the body and nothing else;
\* it answers at once, 400 for a body it rejects.  The older server listens
\* from the moment it is loaded.
PostTelemetry(body) ==
    /\ IF Accepted(body)
       THEN /\ store' = prune(Append(store, Entry(body, "HTTP")))
            /\ requests' = Put(requests, Req("telemetry", "done", "-",
                                             ToStr(body["deviceId"]), 0, {}, 200))
       ELSE /\ requests' = Put(requests, Req("telemetry", "done", "-", "", 0, {}, 400))
            /\ UNCHANGED store
    /\ UNCHANGED <<sessions, coordinates, activeSessionByDevice, latestTelemetryByDevice,
                   latestStatusByDevice, pendingInserts, published, listening, delivered>>

\* ---- mqttClient.on("message") of the older server: whatever the topic, a
\* payload that parses to an object with a device id and finite lat and lon
\* is pushed onto store; text that is no JSON is caught and logged, the
\* payload null reads as {}
OnMessageInMemory(m) ==
    /\ delivered' = delivered + 1
    /\ IF m.parses /\ m.obj # Null /\ Accepted(m.obj)
       THEN store' = prune(Append(store, Entry(m.obj, "MQTT")))
       ELSE UNCHANGED store
    /\ UNCHANGED <<sessions, coordinates, activeSessionByDevice, latestTelemetryByDevice,
                   latestStatusByDevice, requests, pendingInserts, published, listening>>

\* ---- the process crashes or is killed, and is started again
Restart ==
    /\ Exited
    /\ UNCHANGED delivered

Init ==
    /\ sessions = <<>>
    /\ coordinates = <<>>
    /\ activeSessionByDevice = EmptyMap
    /\ latestTelemetryByDevice = EmptyMap
    /\ latestStatusByDevice = EmptyMap
    /\ requests = SetToBag({Req("boot", "ping", "sent", "", 0, {}, 0)})
    /\ pendingInserts = EmptyBag
    /\ published = EmptyBag
    /\ listening = FALSE
    /\ delivered = 0
    /\ store = <<>>

\* ------------------------------------------------------------- inputs
EmptyObj == [key \in Keys |-> Undef]

\* device format {id, sid, la, lo, t}
ShortTelemetry(id, la, lo, sid, t) ==
    [EmptyObj EXCEPT !["id"] = id, !["la"] = la, !["lo"] = lo, !["sid"] = sid, !["t"] = t]

\* server format {deviceId, sessionId, lat, lon, ts}
LongTelemetry(deviceId, lat, lon, sessionId, ts) ==
    [EmptyObj EXCEPT !["deviceId"] = deviceId, !["lat"] = lat, !["lon"] = lon,
                     !["sessionId"] = sessionId, !["ts"] = ts]

\* positive session hints
PositiveHints == {Num(h) : h \in 1..MaxSessions}

\* session hints that are not positive: zero, negative, not numeric, and
\* a numeral too small for a double, which is 0
NonPositiveHints == {Num(0), Num(0 - 1), Str("x"), Str("1e-400")}

\* well-formed telemetry reports on a .../telemetry topic
TelemetryReports ==
    {Msg("telemetry", TRUE, ShortTelemetry(Str(d), Num(la), Num(7), Undef, Undef)) :
        d \in Devices, la \in {1, 2}}
    \cup
    {Msg("telemetry", TRUE, ShortTelemetry(Str(d), Num(1), Num(7), h, Undef)) :
        d \in Devices, h \in PositiveHints}
    \cup
    {Msg("telemetry", TRUE, ShortTelemetry(Str("d1"), Num(1), Num(7), h, Undef)) :
        h \in NonPositiveHints}
    \cup
    {Msg("telemetry", TRUE, LongTelemetry(Str("d1"), Num(2), Num(7), h, Num(5))) :
        h \in {Undef, Num(1)}}
    \cup
    \* long keys that are null give way to the short keys
    {Msg("telemetry", TRUE,
         [ShortTelemetry(Str("d1"), Num(2), Num(7), Undef, Undef) EXCEPT
             !["deviceId"] = Null, !["lat"] = Null, !["lon"] = Null, !["sessionId"] = Null])}
    \cup
    \* numbers sent as strings: white space, an exponent, a radix, a fraction
    \* (the latitude is 1.5, the session hint 2)
    {Msg("telemetry", TRUE,
         ShortTelemetry(Str("d2"), Str("\f15e-1"), Str(" 0x7"), Str("2.0"), Undef))}

\* status payload {id, gps, t}: the device id and two of the opaque fields
StatusReport(id, gps, t) ==
    [EmptyObj EXCEPT !["id"] = id, !["gps"] = gps, !["t"] = t]

\* well-formed status reports on a .../status topic
StatusReports ==
    {Msg("status", TRUE, StatusReport(Str(d), g, t)) :
        d \in Devices, g \in {Undef, Num(1)}, t \in {Undef, Num(5)}}

\* messages the handler must drop: text that is not JSON, the JSON text
\* null, no, an empty, a null or a zero device id, lat or lon that is no
\* finite number (absent, not numeric, or a numeral too large for a
\* double, which is Infinity), and a topic that ends in neither /telemetry
\* nor /status
MalformedMessages ==
    {Msg(topic, FALSE, EmptyObj) : topic \in {"telemetry", "status"}}
    \cup
    {Msg(topic, TRUE, Null) : topic \in {"telemetry", "status"}}
    \cup
    {Msg("telemetry", TRUE, ShortTelemetry(id, Num(1), Num(7), Num(1), Undef)) :
        id \in {Undef, Str("")}}
    \cup
    {Msg("telemetry", TRUE, ShortTelemetry(Str("d1"), la, lo, Num(1), Undef)) :
        la \in {Undef, Str("x"), Str("1e400")}, lo \in {Num(7)}}
    \cup
    {Msg("telemetry", TRUE, ShortTelemetry(Str("d1"), Num(1), Str("x"), Num(1), Undef))}
    \cup
    {Msg("telemetry", TRUE, ShortTelemetry(Null, Num(1), Num(7), Num(1), Undef))}
    \cup
    {Msg("status", TRUE, StatusReport(id, Num(1), Undef)) : id \in {Undef, Str(""), Null}}
    \cup
    \* an own deviceId key that is 0 or null overrides the id
    {Msg("status", TRUE, [StatusReport(Str("d1"), Num(1), Undef) EXCEPT !["deviceId"] = v]) :
        v \in {Num(0), Null}}
    \cup
    {Msg("cmd", TRUE, ShortTelemetry(Str("d1"), Num(1), Num(7), Num(1), Undef))}

\* a status report whose device id is a JSON number: the snapshot is kept
\* under the number, not under the string of its digits
NumericIdReports ==
    {Msg("status", TRUE, [StatusReport(Undef, Num(1), Undef) EXCEPT !["deviceId"] = Num(5)])}

AllMessages == TelemetryReports \cup StatusReports \cup MalformedMessages \cup NumericIdReports

\* bodies of POST /api/telemetry: the objects the transport delivers, one
\* without device id and one whose lat is no number
HttpBodies ==
    {m.obj : m \in TelemetryReports}
    \cup {LongTelemetry(Undef, Num(2), Num(7), Undef, Num(5)),
          LongTelemetry(Str("d1"), Str("x"), Num(7), Undef, Num(5))}

\* start/stop request bodies: a device id, or none
Bodies == Devices \cup {""}

\* -------------------------------------------------------- specifications
\* fewer than MaxInFlight handlers are suspended or unfinished
Room == BagCardinality(requests) < MaxInFlight

\* no handler is suspended or unfinished
Quiet == requests = EmptyBag

\* the transport has more messages to deliver
More == delivered < MaxMessages

\* the transport has more messages to deliver, one more than More allows:
\* a report can follow a report
Backlog == delivered <= MaxMessages

Next ==
    \/ \E r \in InFlight : BootPinged(r)
    \/ Room /\ Connect
    \/ \E r \in InFlight : Loaded(r)
    \/ Room /\ \E d \in Bodies : StartRequest(d)
    \/ \E r \in InFlight : StartDeactivated(r)
    \/ \E r \in InFlight : \E outcome \in PublishOutcomes : StartCreated(r, outcome)
    \/ Room /\ \E d \in Bodies : StopRequest(d)
    \/ \E r \in InFlight : StopFound(r)
    \/ \E r \in InFlight : \E outcome \in PublishOutcomes : StopEnded(r, outcome)
    \/ Room /\ \E d \in Bodies : LatestRequest(d)
    \/ \E r \in InFlight : LatestFound(r)
    \/ \E r \in InFlight : Finish(r)
    \/ \E r \in InFlight : StoreExec(r)
    \/ \E r \in InFlight : StoreFail(r)
    \/ More /\ \E m \in AllMessages : OnMessage(m)
    \/ \E q \in BagToSet(pendingInserts) : InsertExec(q)
    \/ \E q \in BagToSet(pendingInserts) : InsertFail(q)
    \/ Room /\ \E body \in HttpBodies : PostTelemetry(body)
    \/ More /\ \E m \in AllMessages : OnMessageInMemory(m)
    \/ Restart
    \/ \E r \in InFlight : Orphaned(r)

\* The whole program.
Spec == Init /\ [][Next]_vars

\* Spec restricted to start and stop calls that overlap freely while the
\* store answers every query and the transport stays connected.
RaceNext ==
    \/ \E r \in InFlight : BootPinged(r)
    \/ \E r \in InFlight : Loaded(r)
    \/ Room /\ \E d \in Bodies : StartRequest(d)
    \/ \E r \in InFlight : StartDeactivated(r)
    \/ \E r \in InFlight : StartCreated(r, "sent")
    \/ Room /\ \E d \in Bodies : StopRequest(d)
    \/ \E r \in InFlight : StopFound(r)
    \/ \E r \in InFlight : StopEnded(r, "sent")
    \/ \E r \in InFlight : Finish(r)
    \/ \E r \in InFlight : StoreExec(r)

RaceSpec == Init /\ [][RaceNext]_vars

\* RaceSpec with reconnects whose reconcile overlaps no start or stop.
NoLoadInFlight == \A r \in InFlight : r.pc # "load"

QuietLoadNext ==
    \/ \E r \in InFlight : BootPinged(r)
    \/ Quiet /\ Connect
    \/ \E r \in InFlight : Loaded(r)
    \/ Room /\ NoLoadInFlight /\ \E d \in Bodies : StartRequest(d)
    \/ \E r \in InFlight : StartDeactivated(r)
    \/ \E r \in InFlight : StartCreated(r, "sent")
    \/ Room /\ NoLoadInFlight /\ \E d \in Bodies : StopRequest(d)
    \/ \E r \in InFlight : StopFound(r)
    \/ \E r \in InFlight : StopEnded(r, "sent")
    \/ \E r \in InFlight : Finish(r)
    \/ \E r \in InFlight : StoreExec(r)

QuietLoadSpec == Init /\ [][QuietLoadNext]_vars

\* Spec restricted to sequential executions: a start, stop or reconcile
\* begins only when no other is in progress; store calls may fail.
SeqNext ==
    \/ \E r \in InFlight : BootPinged(r)
    \/ Quiet /\ Connect
    \/ \E r \in InFlight : Loaded(r)
    \/ Quiet /\ \E d \in Bodies : StartRequest(d)
    \/ \E r \in InFlight : StartDeactivated(r)
    \/ \E r \in InFlight : StartCreated(r, "sent")
    \/ Quiet /\ \E d \in Bodies : StopRequest(d)
    \/ \E r \in InFlight : StopFound(r)
    \/ \E r \in InFlight : StopEnded(r, "sent")
    \/ \E r \in InFlight : Finish(r)
    \/ \E r \in InFlight : StoreExec(r)
    \/ \E r \in InFlight : StoreFail(r)

SeqSpec == Init /\ [][SeqNext]_vars

\* Spec restricted to telemetry ingestion interleaved with start and stop
\* calls made one at a time; only the Coordinate insert may fail.
IngestNext ==
    \/ \E r \in InFlight : BootPinged(r)
    \/ \E r \in InFlight : Loaded(r)
    \/ Quiet /\ \E d \in Bodies : StartRequest(d)
    \/ \E r \in InFlight : StartDeactivated(r)
    \/ \E r \in InFlight : StartCreated(r, "sent")
    \/ Quiet /\ \E d \in Bodies : StopRequest(d)
    \/ \E r \in InFlight : StopFound(r)
    \/ \E r \in InFlight : StopEnded(r, "sent")
    \/ \E r \in InFlight : Finish(r)
    \/ \E r \in InFlight : StoreExec(r)
    \/ Backlog /\ \E m \in TelemetryReports : OnMessage(m)
    \/ \E q \in BagToSet(pendingInserts) : InsertExec(q)
    \/ \E q \in BagToSet(pendingInserts) : InsertFail(q)

IngestSpec == Init /\ [][IngestNext]_vars

\* One device, the store answering every query: starts overlap as in
\* RaceSpec and one stop call at a time may arrive beside them, so that a
\* stop can find the cache empty while the store holds several active rows.
Crowd == BagCardinality(requests) <= MaxInFlight

NoStopPending == \A r \in InFlight : r.op = "stop" => r.pc = "done"

StopNext ==
    \/ \E r \in InFlight : BootPinged(r)
    \/ \E r \in InFlight : Loaded(r)
    \/ Room /\ StartRequest("d1")
    \/ \E r \in InFlight : StartDeactivated(r)
    \/ \E r \in InFlight : StartCreated(r, "sent")
    \/ Crowd /\ NoStopPending /\ StopRequest("d1")
    \/ \E r \in InFlight : StopFound(r)
    \/ \E r \in InFlight : StopEnded(r, "sent")
    \/ \E r \in InFlight : Finish(r)
    \/ \E r \in InFlight : StoreExec(r)

StopSpec == Init /\ [][StopNext]_vars


\* The transport alone: reports of both kinds and malformed messages arrive
\* while inserts of earlier reports are pending, succeed or fail.
PipelineNext ==
    \/ \E r \in InFlight : BootPinged(r)
    \/ \E r \in InFlight : Loaded(r)
    \/ \E r \in InFlight : StoreExec(r)
    \/ Backlog /\ \E m \in AllMessages : OnMessage(m)
    \/ \E q \in BagToSet(pendingInserts) : InsertExec(q)
    \/ \E q \in BagToSet(pendingInserts) : InsertFail(q)

PipelineSpec == Init /\ [][PipelineNext]_vars

\* PipelineSpec with a transport that hands over every message it has: the
\* listener runs for each message as it arrives, whatever the state of the
\* inserts, which the store may leave unanswered for ever.
StallSpec ==
    /\ Init /\ [][PipelineNext]_vars
    /\ WF_vars(Backlog /\ \E m \in AllMessages : OnMessage(m))

\* status reports that carry every field
FullStatusReports ==
    {m \in StatusReports : m.obj["gps"] # Undef /\ m.obj["t"] # Undef}

\* PipelineSpec of devices that announce themselves: the first message the
\* transport delivers is a status report with every field.
StatusNext ==
    \/ \E r \in InFlight : BootPinged(r)
    \/ \E r \in InFlight : Loaded(r)
    \/ \E r \in InFlight : StoreExec(r)
    \/ delivered = 0 /\ \E m \in FullStatusReports : OnMessage(m)
    \/ delivered > 0 /\ Backlog /\ \E m \in AllMessages : OnMessage(m)
    \/ \E q \in BagToSet(pendingInserts) : InsertExec(q)
    \/ \E q \in BagToSet(pendingInserts) : InsertFail(q)

StatusSpec == Init /\ [][StatusNext]_vars

\* Sequential start and stop calls whose command may be lost by the
\* transport, the store answering or failing.
PublishNext ==
    \/ \E r \in InFlight : BootPinged(r)
    \/ \E r \in InFlight : Loaded(r)
    \/ Quiet /\ \E d \in Bodies : StartRequest(d)
    \/ \E r \in InFlight : StartDeactivated(r)
    \/ \E r \in InFlight : \E outcome \in PublishOutcomes : StartCreated(r, outcome)
    \/ Quiet /\ \E d \in Bodies : StopRequest(d)
    \/ \E r \in InFlight : StopFound(r)
    \/ \E r \in InFlight : \E outcome \in PublishOutcomes : StopEnded(r, outcome)
    \/ \E r \in InFlight : Finish(r)
    \/ \E r \in InFlight : StoreExec(r)
    \/ \E r \in InFlight : StoreFail(r)

PublishSpec == Init /\ [][PublishNext]_vars

\* Sequential start and stop calls on a store that answers or fails, in a
\* process that may exit at any moment and is started again.
CrashNext ==
    \/ \E r \in InFlight : BootPinged(r)
    \/ \E r \in InFlight : Loaded(r)
    \/ Quiet /\ \E d \in Bodies : StartRequest(d)
    \/ \E r \in InFlight : StartDeactivated(r)
    \/ \E r \in InFlight : StartCreated(r, "sent")
    \/ Quiet /\ \E d \in Bodies : StopRequest(d)
    \/ \E r \in InFlight : StopFound(r)
    \/ \E r \in InFlight : StopEnded(r, "sent")
    \/ \E r \in InFlight : Finish(r)
    \/ \E r \in InFlight : StoreExec(r)
    \/ \E r \in InFlight : StoreFail(r)
    \/ Restart
    \/ \E r \in InFlight : Orphaned(r)

CrashSpec == Init /\ [][CrashNext]_vars

\* One device with everything that can touch its sessions interleaved: a
\* start, a stop and a reconcile may all be in flight together, on a store
\* that answers or fails, while telemetry reports with and without hint
\* arrive and are stored.
NoneOf(op) == \A r \in InFlight : r.op # op

LifeReports ==
    {m \in TelemetryReports : m.obj["id"] = Str("d1") /\ m.obj["la"] = Num(1)
                                /\ m.obj["sid"] \in {Undef, Num(1)}}

LifeNext ==
    \/ \E r \in InFlight : BootPinged(r)
    \/ NoneOf("connect") /\ Connect
    \/ \E r \in InFlight : Loaded(r)
    \/ NoneOf("start") /\ StartRequest("d1")
    \/ \E r \in InFlight : StartDeactivated(r)
    \/ \E r \in InFlight : StartCreated(r, "sent")
    \/ NoneOf("stop") /\ StopRequest("d1")
    \/ \E r \in InFlight : StopFound(r)
    \/ \E r \in InFlight : StopEnded(r, "sent")
    \/ \E r \in InFlight : Finish(r)
    \/ \E r \in InFlight : StoreExec(r)
    \/ \E r \in InFlight : StoreFail(r)
    \/ More /\ \E m \in LifeReports : OnMessage(m)
    \/ \E q \in BagToSet(pendingInserts) : InsertExec(q)

LifeSpec == Init /\ [][LifeNext]_vars

\* Both ingestion channels beside sequential start and stop calls for one
\* device: the transport delivers telemetry reports, the HTTP entry point
\* receives bodies, among them the very objects the transport delivers.
HttpNext ==
    \/ \E r \in InFlight : BootPinged(r)
    \/ \E r \in InFlight : Loaded(r)
    \/ Quiet /\ StartRequest("d1")
    \/ \E r \in InFlight : StartDeactivated(r)
    \/ \E r \in InFlight : StartCreated(r, "sent")
    \/ \E r \in InFlight : Finish(r)
    \/ \E r \in InFlight : StoreExec(r)
    \/ More /\ \E m \in TelemetryReports : OnMessage(m)
    \/ \E q \in BagToSet(pendingInserts) : InsertExec(q)
    \/ Quiet /\ Len(store) < MaxMessages /\ \E body \in HttpBodies : PostTelemetry(body)
    \/ More /\ Len(store) < MaxMessages /\ \E m \in TelemetryReports : OnMessageInMemory(m)

HttpSpec == Init /\ [][HttpNext]_vars

\* Two devices, each with at most one start or stop call at a time, the
\* calls of one device interleaving freely with those of the other, on a
\* store that answers or fails.
Idle(d) == \A r \in InFlight : r.device # d

ApartNext ==
    \/ \E r \in InFlight : BootPinged(r)
    \/ \E r \in InFlight : Loaded(r)
    \/ \E d \in Devices : Idle(d) /\ StartRequest(d)
    \/ \E r \in InFlight : StartDeactivated(r)
    \/ \E r \in InFlight : StartCreated(r, "sent")
    \/ \E d \in Devices : Idle(d) /\ StopRequest(d)
    \/ \E r \in InFlight : StopFound(r)
    \/ \E r \in InFlight : StopEnded(r, "sent")
    \/ \E r \in InFlight : Finish(r)
    \/ \E r \in InFlight : StoreExec(r)
    \/ \E r \in InFlight : StoreFail(r)

ApartSpec == Init /\ [][ApartNext]_vars

\* Latest-value reads, one at a time, beside telemetry reports with and
\* without session hint, a report following a report, and their inserts,
\* on a store that answers or fails, the process exiting and starting
\* again at any moment.
LatestNext ==
    \/ \E r \in InFlight : BootPinged(r)
    \/ \E r \in InFlight : Loaded(r)
    \/ NoneOf("latest") /\ \E d \in Bodies : LatestRequest(d)
    \/ \E r \in InFlight : LatestFound(r)
    \/ \E r \in InFlight : Finish(r)
    \/ \E r \in InFlight : StoreExec(r)
    \/ \E r \in InFlight : StoreFail(r)
    \/ Backlog /\ \E m \in TelemetryReports : OnMessage(m)
    \/ \E q \in BagToSet(pendingInserts) : InsertExec(q)
    \/ \E q \in BagToSet(pendingInserts) : InsertFail(q)
    \/ Restart

LatestSpec == Init /\ [][LatestNext]_vars

\* Start and stop calls one after another, the store answering every query,
\* while the transport reconnects at any moment: a reconcile may overlap a
\* call, and no call overlaps another call.
NoCall == NoneOf("start") /\ NoneOf("stop")

ReloadNext ==
    \/ \E r \in InFlight : BootPinged(r)
    \/ NoneOf("connect") /\ Connect
    \/ \E r \in InFlight : Loaded(r)
    \/ NoCall /\ \E d \in Bodies : StartRequest(d)
    \/ \E r \in InFlight : StartDeactivated(r)
    \/ \E r \in InFlight : StartCreated(r, "sent")
    \/ NoCall /\ \E d \in Bodies : StopRequest(d)
    \/ \E r \in InFlight : StopFound(r)
    \/ \E r \in InFlight : StopEnded(r, "sent")
    \/ \E r \in InFlight : Finish(r)
    \/ \E r \in InFlight : StoreExec(r)

ReloadSpec == Init /\ [][ReloadNext]_vars

\* ReloadSpec with the transport delivering a telemetry report and the
\* store executing its insert: the report may arrive after a reconcile
\* that overlapped a call.
ReconnectNext ==
    \/ ReloadNext
    \/ More /\ \E m \in TelemetryReports : OnMessage(m)
    \/ \E q \in BagToSet(pendingInserts) : InsertExec(q)

ReconnectSpec == Init /\ [][ReconnectNext]_vars

\* ----------------------------------------------------------------- claims
\* this step is handler r writing its response
Answers(r, status) ==
    /\ r \in InFlight /\ r.pc # "done"
    /\ requests' = Swap(requests, r, [r EXCEPT !.pc = "done", !.st = "-", !.status = status])

\* every start and stop call made so far has written its response
AllAnswered == \A r \in InFlight : r.pc = "done"

\* C1: whatever the interleaving of start(d) and stop(d) calls, at most one
\* session row of a device has is_active = true.
C1_AtMostOneActivePerDevice ==
    \A d \in Devices : Cardinality(ActiveIdsOf(sessions, d)) <= 1

\* C2: once every overlapping start(d) and stop(d) call has completed, the
\* cache maps d to an active session of d, and has no entry for d only if d
\* has no active session row.
C2_CacheIsTheActiveSession ==
    (listening /\ AllAnswered /\ \A r \in InFlight : r.status = 200) =>
        \A d \in Devices :
            IF MapHas(activeSessionByDevice, d)
            THEN activeSessionByDevice[d] \in ActiveIdsOf(sessions, d)
            ELSE ActiveIdsOf(sessions, d) = {}

\* C3: when a start(d) answers with success, every session an earlier
\* start(d) returned is inactive with ended_at set, the new session is the
\* only active session of d, and the cache maps d to the new session.
C3_SecondStartEndsFirst ==
    [][\A r \in InFlight :
        (r.op = "start" /\ Answers(r, 200)) =>
            /\ \A s1 \in SessionIds(sessions) \ {r.sessionId} :
                  BagIn(Command(r.device, "START", s1), published) =>
                      ~sessions'[s1].is_active /\ sessions'[s1].ended_at
            /\ ActiveIdsOf(sessions', r.device) = {r.sessionId}
            /\ MapHas(activeSessionByDevice', r.device)
            /\ activeSessionByDevice'[r.device] = r.sessionId]_vars

\* a second start(d) has answered with session s2 after a first one returned
\* s1, with no stop between them
C3_Witness ==
    \E r \in InFlight :
        /\ r.op = "start" /\ r.pc = "done" /\ r.status = 200
        /\ \E s1 \in 1..(r.sessionId - 1) :
              /\ BagIn(Command(r.device, "START", s1), published)
              /\ ~BagIn(Command(r.device, "STOP", s1), published)
              /\ ~sessions[s1].is_active /\ sessions[s1].ended_at
        /\ MapGet(activeSessionByDevice, r.device) = r.sessionId

\* C4 as stated: a stop(d) that found no cache entry, while d has no active
\* row, modifies no session row, leaves the cache alone, publishes nothing,
\* and does nothing but wait for its lookup and answer not-found.
C4_StopWithoutSessionIsNotFound ==
    [][\A r \in InFlight :
        (/\ r.op = "stop" /\ r.pc = "find"
         /\ ~MapHas(activeSessionByDevice, r.device)
         /\ ActiveIdsOf(sessions, r.device) = {}) =>
            /\ UNCHANGED <<sessions, activeSessionByDevice, published>>
            /\ \A r2 \in InFlight' :
                  requests' = Swap(requests, r, r2) =>
                      r2.pc = "find" \/ (r2.pc = "done" /\ r2.status = 404)]_vars

\* C4 amended: such a stop(d) changes nothing and does nothing but wait for
\* its lookup and answer: not-found when the lookup query succeeds, the
\* store error when the lookup fails.
C4_StopWithoutSessionChangesNothing ==
    [][\A r \in InFlight :
        (/\ r.op = "stop" /\ r.pc = "find"
         /\ ~MapHas(activeSessionByDevice, r.device)
         /\ ActiveIdsOf(sessions, r.device) = {}) =>
            /\ UNCHANGED <<sessions, activeSessionByDevice, published>>
            /\ \A r2 \in InFlight' :
                  requests' = Swap(requests, r, r2) =>
                      \/ r2.pc = "find"
                      \/ r2.pc = "done" /\ r2.status = (IF r.st = "err" THEN 500 ELSE 404)]_vars

\* a stop(d) has answered not-found while d had neither cache entry nor
\* active row, after an earlier session of d was started and stopped
C4_Witness ==
    \E r \in InFlight :
        /\ r.op = "stop" /\ r.pc = "done" /\ r.status = 404
        /\ ~MapHas(activeSessionByDevice, r.device)
        /\ ActiveIdsOf(sessions, r.device) = {}
        /\ \E s \in SessionIds(sessions) : sessions[s].device_id = r.device

\* C5: stop(d) takes the session to end from the cache entry of d and asks
\* the store only when there is none; the store answers with the most
\* recently started active row of d; when the update of the session found
\* has succeeded, the session is inactive with ended_at set, d has no cache
\* entry and the response carries that session id and d.
C5_StopEndsTheResolvedSession ==
    [][/\ \A d \in Devices : StopRequest(d) =>
              \E r \in InFlight' :
                  /\ requests' = Put(requests, r)
                  /\ r.op = "stop" /\ r.device = d /\ r.st = "sent"
                  /\ IF MapHas(activeSessionByDevice, d)
                     THEN r.pc = "end" /\ r.sessionId = activeSessionByDevice[d]
                     ELSE r.pc = "find"
       /\ \A r \in InFlight : \A r2 \in InFlight' :
              (/\ r.op = "stop" /\ r.pc = "find" /\ r.st = "sent"
               /\ r2.st = "ok" /\ requests' = Swap(requests, r, r2)) =>
                  /\ r2.rows \subseteq ActiveIdsOf(sessions, r.device)
                  /\ ActiveIdsOf(sessions, r.device) # {} => Cardinality(r2.rows) = 1
                  /\ \A i \in r2.rows : \A j \in ActiveIdsOf(sessions, r.device) : j <= i
       /\ \A r \in InFlight : \A r2 \in InFlight' :
              (/\ r.op = "stop" /\ r.pc = "find" /\ r.st = "ok" /\ r.rows # {}
               /\ requests' = Swap(requests, r, r2)) =>
                  r2.pc = "end" /\ r2.st = "sent" /\ r2.sessionId \in r.rows
       /\ \A r \in InFlight : \A r2 \in InFlight' :
              (/\ r.op = "stop" /\ r.pc = "end" /\ r.st = "ok"
               /\ requests' = Swap(requests, r, r2)) =>
                  /\ ~sessions'[r.sessionId].is_active /\ sessions'[r.sessionId].ended_at
                  /\ ~MapHas(activeSessionByDevice', r.device)
                  /\ r2.pc = "done" /\ r2.status = 200
                  /\ r2.sessionId = r.sessionId /\ r2.device = r.device]_vars

\* a stop(d1) has succeeded on session 2, which it can only have found in
\* the store (no start has filled the cache yet), and which was the later of
\* two active rows: session 1 is still active
C5_Witness ==
    \E r \in InFlight :
        /\ r.op = "stop" /\ r.pc = "done" /\ r.status = 200 /\ r.sessionId = 2
        /\ Len(sessions) >= 2
        /\ sessions[1].is_active /\ sessions[1].device_id = r.device
        /\ ~sessions[2].is_active /\ sessions[2].ended_at
        /\ ~MapHas(activeSessionByDevice, r.device)
        /\ \A c \in BagToSet(published) : c.cmd # "START"

\* C6: when loadActiveSessionsIntoCache completes successfully and no start
\* or stop overlaps it, the cache has an entry d -> s exactly for the session
\* rows (s, d) with is_active = true, and no other entry.
C6_ReconcileMirrorsActiveRows ==
    [][\A r \in InFlight :
        (/\ r.op \in {"boot", "connect"} /\ r.pc = "load" /\ r.st = "ok"
         /\ requests' = Take(requests, r)) =>
            /\ DOMAIN activeSessionByDevice' \subseteq Devices
            /\ \A d \in Devices : \A s \in SessionIds(sessions) :
                  (MapHas(activeSessionByDevice', d) /\ activeSessionByDevice'[d] = s)
                      <=> (sessions[s].is_active /\ sessions[s].device_id = d)]_vars

\* ---- what a telemetry report says, read from its payload
\* (a field that is null counts as absent, a numeric string as its number)
FirstOf(obj, long, short) ==
    IF obj[long].k \notin {"undefined", "null"} THEN obj[long] ELSE obj[short]

DeviceOf(m) == FirstOf(m.obj, "deviceId", "id").s
LatOf(m) == ToNumber(FirstOf(m.obj, "lat", "la"))
LonOf(m) == ToNumber(FirstOf(m.obj, "lon", "lo"))

\* the positive session hint of a report, the number 0 when it has none
HintOf(m) ==
    LET v == ToNumber(FirstOf(m.obj, "sessionId", "sid"))
    IN  IF IsFinite(v) /\ Positive(v) THEN v ELSE Num(0)

\* this step is the pipeline handing exactly the call q to insertCoordinate
Issues(q) == pendingInserts' = Put(pendingInserts, q)

\* q is a call for the report m under session sid
CallFor(q, m, sid) ==
    /\ q.sessionId = sid /\ q.deviceId = DeviceOf(m)
    /\ q.lat = LatOf(m) /\ q.lon = LonOf(m)

\* a successful insert appends exactly one row, the one its call names
InsertWritesItsCall ==
    \A q \in BagToSet(pendingInserts) :
        InsertExec(q) =>
            /\ Len(coordinates') = Len(coordinates) + 1
            /\ SubSeq(coordinates', 1, Len(coordinates)) = coordinates
            /\ coordinates'[Len(coordinates')].session_id = q.sessionId
            /\ coordinates'[Len(coordinates')].device_id = q.deviceId
            /\ coordinates'[Len(coordinates')].lat = q.lat
            /\ coordinates'[Len(coordinates')].lon = q.lon

\* the snapshot of device d after the step is that of report m under sid
SnapshotIs(m, sid) ==
    /\ MapHas(latestTelemetryByDevice', DeviceOf(m))
    /\ latestTelemetryByDevice'[DeviceOf(m)].lat = LatOf(m)
    /\ latestTelemetryByDevice'[DeviceOf(m)].lon = LonOf(m)
    /\ latestTelemetryByDevice'[DeviceOf(m)].sid = sid

\* C7: a report for d with finite lat/lon and a positive hint h issues one
\* insert for session h and device d whatever the cache maps d to, the
\* snapshot of d records h, and the insert, when it succeeds, writes exactly
\* one Coordinate with that session id and device id.
C7_HintTakesPrecedence ==
    [][/\ \A m \in TelemetryReports :
              (OnMessage(m) /\ Positive(HintOf(m))) =>
                  /\ \E q \in BagToSet(pendingInserts') :
                        Issues(q) /\ CallFor(q, m, HintOf(m))
                  /\ SnapshotIs(m, HintOf(m))
                  /\ UNCHANGED coordinates
       /\ InsertWritesItsCall]_vars

\* a Coordinate of d is stored under a session id that the snapshot of d
\* records and that differs from the session the cache maps d to
C7_Witness ==
    \E i \in 1..Len(coordinates) :
        LET row == coordinates[i]
        IN  /\ MapHas(activeSessionByDevice, row.device_id)
            /\ Num(activeSessionByDevice[row.device_id]) # row.session_id
            /\ MapHas(latestTelemetryByDevice, row.device_id)
            /\ latestTelemetryByDevice[row.device_id].sid = row.session_id

\* C8: a report for d with finite lat/lon, no positive hint and no cache
\* entry for d overwrites the snapshot of d with its lat/lon and a null
\* session id, and hands nothing to insertCoordinate: no Coordinate row.
C8_NoSessionNoCoordinate ==
    [][\A m \in TelemetryReports :
          (/\ OnMessage(m)
           /\ HintOf(m) = Num(0)
           /\ ~MapHas(activeSessionByDevice, DeviceOf(m))) =>
              /\ SnapshotIs(m, Num(0))
              /\ \A d \in DOMAIN latestTelemetryByDevice' \ {DeviceOf(m)} :
                    /\ MapHas(latestTelemetryByDevice, d)
                    /\ latestTelemetryByDevice'[d] = latestTelemetryByDevice[d]
              /\ UNCHANGED <<pendingInserts, coordinates>>]_vars

\* two reports of one device have been delivered: the first, at latitude 1,
\* is stored under a session; the second, at latitude 2, found neither hint
\* nor cache entry: the snapshot is the second's, with a null session id,
\* and nothing more is stored or waiting to be stored
C8_Witness ==
    \E d \in Devices :
        /\ delivered = 2
        /\ ~MapHas(activeSessionByDevice, d)
        /\ MapHas(latestTelemetryByDevice, d)
        /\ latestTelemetryByDevice[d].lat = Num(2) /\ latestTelemetryByDevice[d].sid = Num(0)
        /\ Len(coordinates) = 1
        /\ coordinates[1].device_id = d /\ coordinates[1].lat = Num(1)
        /\ pendingInserts = EmptyBag

\* no start or stop call of device d is suspended
Settled(d) == \A r \in InFlight : r.device = d => r.pc = "done"

\* s is the session the last start(d) returned, and no start of d came later
LastStarted(d, s) ==
    /\ BagIn(Command(d, "START", s), published)
    /\ \A s2 \in SessionIds(sessions) : sessions[s2].device_id = d => s2 <= s

\* C9: after start(d) returned s and before any later start or stop of d, a
\* report for d without positive hint issues an insert for session s and
\* device d, which writes that Coordinate when it succeeds; after a
\* successful stop(d) with no further start, such a report issues none.
C9_ReportFollowsStartAndStop ==
    [][/\ \A m \in TelemetryReports :
              (OnMessage(m) /\ HintOf(m) = Num(0) /\ Settled(DeviceOf(m))) =>
                  \A s \in SessionIds(sessions) :
                      LastStarted(DeviceOf(m), s) =>
                          IF BagIn(Command(DeviceOf(m), "STOP", s), published)
                          THEN UNCHANGED <<pendingInserts, coordinates>>
                          ELSE \E q \in BagToSet(pendingInserts') :
                                  Issues(q) /\ CallFor(q, m, Num(s))
       /\ InsertWritesItsCall]_vars

\* C10: the session id the pipeline resolves for a report names a session
\* row of the report's device that is active in the store at that moment,
\* and every Coordinate row is written with the resolved id.  Stated for
\* the reports without positive hint, whose session id is the cache's (a
\* positive hint is taken as it is).
C10_RowsNameActiveSession ==
    [][/\ \A m \in TelemetryReports : \A q \in BagToSet(pendingInserts') :
              (OnMessage(m) /\ Issues(q) /\ HintOf(m) = Num(0)) =>
                  /\ q.deviceId = DeviceOf(m)
                  /\ \E s \in ActiveIdsOf(sessions, q.deviceId) : q.sessionId = Num(s)
       /\ InsertWritesItsCall]_vars

\* C11: every accepted telemetry report overwrites the snapshot of its
\* device in the step that hands its call to insertCoordinate (or hands over
\* none), before any row of it is written; neither a successful nor a failed
\* insert touches the snapshots; a failed insert drops its call without
\* issuing another and writes no Coordinate.
C11_SnapshotWhateverTheInsertDoes ==
    [][/\ \A m \in TelemetryReports :
              OnMessage(m) =>
                  /\ \E sid \in 0..(MaxSessions + 1) : SnapshotIs(m, Num(sid))
                  /\ UNCHANGED coordinates
       /\ delivered' = delivered =>
              /\ UNCHANGED latestTelemetryByDevice
              /\ pendingInserts' # pendingInserts =>
                    \E q \in BagToSet(pendingInserts) :
                        /\ pendingInserts' = Take(pendingInserts, q)
                        /\ \/ UNCHANGED coordinates
                           \/ Len(coordinates') = Len(coordinates) + 1]_vars

\* two reports of one device have been delivered: the first, at latitude 1,
\* is stored; the insert of the second, at latitude 2, failed: the snapshot
\* is the second's and names its session, no row of it is stored and
\* nothing waits to be stored
C11_Witness ==
    \E d \in Devices :
        /\ delivered = 2
        /\ MapHas(latestTelemetryByDevice, d)
        /\ latestTelemetryByDevice[d].sid # Num(0)
        /\ latestTelemetryByDevice[d].lat = Num(2) /\ latestTelemetryByDevice[d].lon = Num(7)
        /\ Len(coordinates) = 1
        /\ coordinates[1].device_id = d /\ coordinates[1].lat = Num(1)
        /\ pendingInserts = EmptyBag

\* C12: a malformed message (text that does not parse, no or an empty
\* device id, lat or lon not finite on a telemetry topic, a topic of neither
\* kind) changes neither the session cache, nor the two snapshot caches, nor
\* the session rows, nor the Coordinate rows.
C12_MalformedChangesNothing ==
    [][\A m \in MalformedMessages :
          OnMessage(m) =>
              UNCHANGED <<activeSessionByDevice, latestTelemetryByDevice,
                          latestStatusByDevice, sessions, coordinates>>]_vars

\* C13: a status report for device d makes the status snapshot of d hold
\* exactly the fields of the report (a field the report lacks is absent,
\* whatever the previous snapshot held) and leaves alone the status
\* snapshots of the other devices, the telemetry snapshots, the session
\* cache, the session rows and the Coordinate rows.
C13_StatusReplacesSnapshot ==
    [][\A m \in StatusReports \cup NumericIdReports :
          OnMessage(m) =>
              LET d == FirstOf(m.obj, "deviceId", "id")
              IN  /\ DOMAIN latestStatusByDevice' = DOMAIN latestStatusByDevice \cup {d}
                  /\ latestStatusByDevice'[d]["deviceId"] = d
                  /\ \A key \in Keys \ {"deviceId"} :
                        latestStatusByDevice'[d][key] = m.obj[key]
                  /\ \A d2 \in DOMAIN latestStatusByDevice \ {d} :
                        latestStatusByDevice'[d2] = latestStatusByDevice[d2]
                  /\ UNCHANGED <<latestTelemetryByDevice, activeSessionByDevice,
                                 sessions, coordinates>>]_vars

\* d1 announced itself with a status report carrying gps and t, and a
\* second status report of d1 carrying neither has arrived: the snapshot of
\* d1 has lost both fields, and there is no other snapshot of any kind
C13_Witness ==
    /\ delivered = 2
    /\ DOMAIN latestStatusByDevice = {Str("d1")}
    /\ latestStatusByDevice[Str("d1")]["gps"] = Undef
    /\ latestStatusByDevice[Str("d1")]["t"] = Undef
    /\ latestTelemetryByDevice = EmptyMap
    /\ coordinates = <<>> /\ pendingInserts = EmptyBag

\* C14: once the last store call of a start(d) or stop(d) has succeeded, the
\* call answers success, whether the publish of its command sends it, loses
\* it or raises an error.
C14_PublishFailureStillSucceeds ==
    [][\A r \in InFlight : \A r2 \in InFlight' :
          (/\ (r.op = "start" /\ r.pc = "create") \/ (r.op = "stop" /\ r.pc = "end")
           /\ r.st = "ok"
           /\ requests' = Swap(requests, r, r2)) =>
              /\ r2.pc = "done" /\ r2.status = 200
              /\ r2.sessionId = r.sessionId /\ r2.device = r.device]_vars

\* a start whose deactivate has succeeded and whose create has not been
\* sent, or has failed
BetweenItsSteps(r) ==
    /\ r.op = "start"
    /\ (r.pc = "deactivate" /\ r.st = "ok") \/ (r.pc = "create" /\ r.st = "err")

\* C15: a start(d) or stop(d) one of whose store calls has failed answers
\* with the error, publishes no command and leaves the cache alone; while a
\* start(d) is between its deactivate and its create, and when it fails or
\* the process exits there, d has no active session row.
C15_StoreFailureIsReported ==
    [][/\ \A r \in InFlight : \A r2 \in InFlight' :
              (/\ r.op \in {"start", "stop"} /\ r.st = "err"
               /\ r2.op = r.op /\ requests' = Swap(requests, r, r2)) =>
                  /\ r2.pc = "done" /\ r2.status = 500
                  /\ UNCHANGED <<published, activeSessionByDevice, sessions>>
       /\ \A r \in InFlight :
              BetweenItsSteps(r) =>
                  /\ ActiveIdsOf(sessions, r.device) = {}
                  /\ (Exited \/ r \notin InFlight') =>
                        ActiveIdsOf(sessions', r.device) = {}]_vars

\* a start(d) has answered with the error of its create after its
\* deactivate ended session 1: d has no active session row
C15_Witness ==
    \E r \in InFlight :
        /\ r.op = "start" /\ r.pc = "done" /\ r.status = 500
        /\ Len(sessions) = 1
        /\ sessions[1].device_id = r.device /\ sessions[1].ended_at
        /\ ActiveIdsOf(sessions, r.device) = {}
        /\ BagIn(Command(r.device, "START", 1), published)
        /\ ~BagIn(Command(r.device, "STOP", 1), published)

\* C16: no step ever removes a session row, moves it to another device or
\* makes an inactive row active again, and a row that appears is active
\* under an id above every earlier id.
C16_EndedIsTerminal ==
    [][/\ Len(sessions') >= Len(sessions)
       /\ \A s \in SessionIds(sessions) :
              /\ sessions'[s].device_id = sessions[s].device_id
              /\ ~sessions[s].is_active => ~sessions'[s].is_active
              /\ sessions[s].ended_at => sessions'[s].ended_at
       /\ \A s \in SessionIds(sessions') \ SessionIds(sessions) :
              /\ sessions'[s].is_active
              /\ \A s1 \in SessionIds(sessions) : s1 < s]_vars

\* session 1 was stopped and the device started again: it is active under
\* session 2 while session 1 stays ended, and a report has been stored
C16_Witness ==
    /\ Len(sessions) >= 2
    /\ ~sessions[1].is_active /\ sessions[1].ended_at
    /\ sessions[2].is_active /\ sessions[2].device_id = sessions[1].device_id
    /\ BagIn(Command(sessions[1].device_id, "STOP", 1), published)
    /\ coordinates # <<>>

\* the startup handlers and their query
Boots == {r \in InFlight : r.op = "boot"}

\* C17 as stated: the process starts one reconcile before it listens (the
\* step that begins to listen is the return of loadActiveSessionsIntoCache
\* to the startup), and every connect event starts one reconcile.
C17_ReconcileBeforeListening ==
    [][/\ ~listening => Cardinality(Boots) = 1 /\ BagCardinality(requests) >= 1
       /\ (~listening /\ listening') =>
              \E r \in Boots : r.pc = "load" /\ requests' = Take(requests, r)
       /\ Connect =>
              \E r \in InFlight' :
                  /\ r.op = "connect" /\ r.pc = "load" /\ r.st = "sent"
                  /\ requests' = Put(requests, r)]_vars

\* C17 amended: the process starts one reconcile after its connectivity
\* check SELECT 1 has succeeded and listens when that reconcile has returned
\* or failed; when the connectivity check fails it listens without having
\* started a reconcile.  Every connect event starts one reconcile.
C17_ReconcileUnlessPingFails ==
    [][/\ ~listening => Cardinality(Boots) = 1 /\ BagCardinality(requests) >= 1
       /\ \A r \in Boots : \A r2 \in InFlight' :
              (r.pc = "ping" /\ r.st = "ok" /\ requests' = Swap(requests, r, r2)) =>
                  r2.op = "boot" /\ r2.pc = "load" /\ r2.st = "sent" /\ ~listening'
       /\ (~listening /\ listening') =>
              \E r \in Boots :
                  /\ requests' = Take(requests, r)
                  /\ \/ r.pc = "load" /\ r.st \in {"ok", "err"}
                     \/ r.pc = "ping" /\ r.st = "err"
       /\ Connect =>
              \E r \in InFlight' :
                  /\ r.op = "connect" /\ r.pc = "load" /\ r.st = "sent"
                  /\ requests' = Put(requests, r)]_vars

\* the server listens and the reconcile of a reconnect has read the active
\* session of a device from the store
C17_Witness ==
    /\ listening
    /\ \E r \in InFlight :
          /\ r.op = "connect" /\ r.pc = "load" /\ r.st = "ok"
          /\ r.rows # {}

\* the session the transport pipeline files a report under: its positive
\* hint, else the session cached for its device, else none (0)
SessionFor(m) ==
    IF Positive(HintOf(m)) THEN HintOf(m) ELSE Num(MapGet(activeSessionByDevice, DeviceOf(m)))

\* C18: a telemetry report submitted through the HTTP ingestion entry point
\* has the effect the transport's delivery of the same report has from the
\* same state: the same effective session id, the same telemetry snapshot,
\* and the same Coordinate handed to the store, or none.
C18_HttpSameAsTransport ==
    [][\A m \in TelemetryReports :
          PostTelemetry(m.obj) =>
              /\ SnapshotIs(m, SessionFor(m))
              /\ IF SessionFor(m) # 0
                 THEN \E q \in BagToSet(pendingInserts') :
                          Issues(q) /\ CallFor(q, m, SessionFor(m))
                 ELSE UNCHANGED pendingInserts]_vars

\* C19: no pending or failed insert prevents a later report's snapshot from
\* being written: a report delivered while inserts are pending writes its
\* snapshot and leaves those inserts pending, and whenever an insert is
\* pending and the transport has another message, that message is handled,
\* even if the store never answers the insert.
C19_InsertsDoNotBlockIngestion ==
    /\ [][\A m \in TelemetryReports :
            (OnMessage(m) /\ pendingInserts # EmptyBag) =>
                /\ SnapshotIs(m, SessionFor(m))
                /\ \A q \in BagToSet(pendingInserts) :
                      CopiesIn(q, pendingInserts') >= CopiesIn(q, pendingInserts)]_vars
    /\ (pendingInserts # EmptyBag /\ Backlog) ~> (delivered > MaxMessages)

\* the insert of a report at lat 1 is pending and the snapshot is that of
\* a later report of the same device at lat 2
C19_Witness ==
    \E q \in BagToSet(pendingInserts) :
        /\ q.deviceId = "d1" /\ q.lat = Num(1)
        /\ MapHas(latestTelemetryByDevice, "d1")
        /\ latestTelemetryByDevice["d1"].lat = Num(2)

\* the session rows of device d, by id
RowsOf(ss, d) == {i \in SessionIds(ss) : ss[i].device_id = d}

\* this step changes nothing that belongs to a device other than d
OthersUntouched(d) ==
    \A o \in Devices \ {d} :
        /\ RowsOf(sessions', o) = RowsOf(sessions, o)
        /\ \A i \in RowsOf(sessions, o) : sessions'[i] = sessions[i]
        /\ MapHas(activeSessionByDevice', o) = MapHas(activeSessionByDevice, o)
        /\ MapGet(activeSessionByDevice', o) = MapGet(activeSessionByDevice, o)

\* C20: no step of a start or stop call for device d (its queries in the
\* store and its continuations) changes a session row of another device,
\* that row's isActive or endedAt, or the cache entry of another device,
\* whatever calls for other devices are in flight.
C20_OtherDevicesUntouched ==
    [][\A r \in InFlight :
          /\ r.op \in {"start", "stop"}
          /\ \/ StoreExec(r) \/ StoreFail(r)
             \/ StartDeactivated(r) \/ StartCreated(r, "sent")
             \/ StopFound(r) \/ StopEnded(r, "sent")
          => OthersUntouched(r.device)]_vars

\* d2 has kept its active session and its cache entry while a later
\* session of d1 was started and then ended
C20_Witness ==
    /\ MapGet(activeSessionByDevice, "d2") # 0
    /\ sessions[MapGet(activeSessionByDevice, "d2")].is_active
    /\ \E i \in RowsOf(sessions, "d1") :
           sessions[i].ended_at /\ i > MapGet(activeSessionByDevice, "d2")

\* C21: start and stop calls on one device are linearized; in particular
\* of two overlapping stops of a device with one active session only one
\* succeeds and one STOP command is published: a stop succeeds for a
\* session only if no STOP command for that session was published before.
C21_StopsAreLinearized ==
    [][\A r \in InFlight :
          StopEnded(r, "sent") /\ r.st = "ok"
          => Command(r.device, "STOP", r.sessionId) \notin BagToSet(published)]_vars

\* this step is a latest-value read of d answered at once, without a query
\* to the store, with the values of d's telemetry snapshot
AnsweredFromCache(d) ==
    \E r2 \in InFlight' :
        /\ requests' = Put(requests, r2)
        /\ r2.op = "latest" /\ r2.device = d /\ r2.pc = "done" /\ r2.status = 200
        /\ r2.latest.lat = latestTelemetryByDevice[d].lat
        /\ r2.latest.lon = latestTelemetryByDevice[d].lon
        /\ r2.latest.session_id = latestTelemetryByDevice[d].sid
        /\ r2.latest.source = "memory"

\* this step is a latest-value read of d sending its query to the store
AsksTheStore(d) ==
    \E r2 \in InFlight' :
        /\ requests' = Put(requests, r2)
        /\ r2.op = "latest" /\ r2.device = d /\ r2.pc = "latest" /\ r2.st = "sent"

\* C22: once a report for d has been accepted, getLatest(d) answers with
\* the lat, lon and session id of the most recently accepted report for d,
\* from the cache and without a query to the store; the store is asked
\* only when d has no snapshot.  The snapshot of d is written by accepted
\* reports for d only, each writing its own values, and is lost only when
\* the process exits.
C22_LatestComesFromCache ==
    [][/\ \A d \in Devices :
            LatestRequest(d) =>
                IF MapHas(latestTelemetryByDevice, d)
                THEN AnsweredFromCache(d)
                ELSE AsksTheStore(d)
       /\ \A m \in TelemetryReports : OnMessage(m) => SnapshotIs(m, SessionFor(m))
       /\ \A d \in Devices :
            \/ /\ MapHas(latestTelemetryByDevice', d) = MapHas(latestTelemetryByDevice, d)
               /\ MapHas(latestTelemetryByDevice, d)
                    => latestTelemetryByDevice'[d] = latestTelemetryByDevice[d]
            \/ \E m \in TelemetryReports : DeviceOf(m) = d /\ OnMessage(m)
            \/ Restart]_vars

\* two reports of one device have been delivered, the first at latitude 1
\* (its Coordinate is stored), the second at latitude 2; a read was then
\* answered from the snapshot with the latitude of the second
C22_Witness ==
    /\ delivered = 2
    /\ \E r \in InFlight :
           /\ r.op = "latest" /\ r.pc = "done" /\ r.status = 200
           /\ r.latest.source = "memory" /\ r.latest.lat = Num(2)
           /\ latestTelemetryByDevice[r.device].lat = Num(2)
           /\ \E i \in 1..Len(coordinates) :
                  coordinates[i].device_id = r.device /\ coordinates[i].lat = Num(1)

\* the cache entry of d is d's active session in the store, absent if d has none
CacheMatchesStore(d) ==
    ActiveIdsOf(sessions, d) =
        IF MapHas(activeSessionByDevice, d) THEN {activeSessionByDevice[d]} ELSE {}

\* C23: staleness from a reconcile that overlaps start or stop calls is
\* temporary: once the reconcile and the calls have completed, the cache
\* entry of every device is its active session in the store.
C23_StaleOnlyWhileOverlapping ==
    (listening /\ Quiet) => \A d \in Devices : CacheMatchesStore(d)

\* this step is the call r, its last store call having succeeded, updating
\* the cache, publishing the command c for its session on its device's
\* topic, and answering success
PublishesFor(r, c) ==
    /\ r.op \in {"start", "stop"} /\ r.st = "ok"
    /\ c.topic = r.device /\ c.sessionId = r.sessionId
    /\ r.sessionId \in SessionIds(sessions)
    /\ sessions[r.sessionId].device_id = r.device
    /\ \/ /\ r.op = "start" /\ r.pc = "create" /\ c.cmd = "START"
          /\ MapGet(activeSessionByDevice', r.device) = r.sessionId
       \/ /\ r.op = "stop" /\ r.pc = "end" /\ c.cmd = "STOP"
          /\ ~sessions[r.sessionId].is_active /\ sessions[r.sessionId].ended_at
          /\ ~MapHas(activeSessionByDevice', r.device)
    /\ requests' = Swap(requests, r, [r EXCEPT !.pc = "done", !.st = "-", !.status = 200])

\* C24: a START or STOP command is published only by a call whose durable
\* mutation has succeeded, with the cache updated, on the device's topic
\* and with the call's session id; and a start or stop answers success
\* only in a step that has published its command.
C24_CommandAfterCommit ==
    [][/\ \A c \in BagToSet(published') :
            published' = Put(published, c) => \E r \in InFlight : PublishesFor(r, c)
       /\ \A r \in InFlight : \A r2 \in InFlight' :
            (/\ r.op \in {"start", "stop"} /\ r.pc # "done"
             /\ requests' = Swap(requests, r, r2)
             /\ r2.pc = "done" /\ r2.status = 200) =>
                \E c \in BagToSet(published') :
                    published' = Put(published, c) /\ PublishesFor(r, c)]_vars

\* the START and the STOP command of one session of d1 are published, the
\* session is ended and d1 has no cache entry, while d2 has a session
C24_Witness ==
    \E s \in SessionIds(sessions) :
        /\ [topic |-> "d1", cmd |-> "START", sessionId |-> s] \in BagToSet(published)
        /\ [topic |-> "d1", cmd |-> "STOP", sessionId |-> s] \in BagToSet(published)
        /\ sessions[s].ended_at
        /\ ~MapHas(activeSessionByDevice, "d1")
        /\ MapHas(activeSessionByDevice, "d2")

\* C25: in sequential executions, after every start or stop, one that
\* ended with a store error included, every cache entry d -> s names a
\* session s that is active in the store for d.
C25_CacheNamesActiveSessions ==
    (listening /\ AllAnswered) =>
        \A d \in DOMAIN activeSessionByDevice :
            activeSessionByDevice[d] \in ActiveIdsOf(sessions, d)

\* C26: when the query of a reconcile fails, the step in which the
\* reconcile returns to its caller leaves the session cache, and everything
\* else the process holds, as it was; the caller goes on: the startup
\* begins to listen, a connect handler just ends.
C26_FailedReconcileChangesNothing ==
    [][\A r \in InFlight :
          (/\ r.op \in {"boot", "connect"} /\ r.pc = "load" /\ r.st = "err"
           /\ requests' = Take(requests, r)) =>
              /\ UNCHANGED <<activeSessionByDevice, latestTelemetryByDevice,
                             latestStatusByDevice, sessions, coordinates>>
              /\ listening' = (listening \/ r.op = "boot")]_vars

\* the query of a reconnect's reconcile has failed while the cache holds
\* the active session of d1 and the server listens
C26_Witness ==
    /\ listening
    /\ MapGet(activeSessionByDevice, "d1") \in ActiveIdsOf(sessions, "d1")
    /\ \E r \in InFlight : r.op = "connect" /\ r.pc = "load" /\ r.st = "err"

=============================================================================
